---- MODULE Spec2Model ----
(***************************************************************************)
(* Model of the feral cat DPS simulator (tbc_cat_sim.py): the Player       *)
(* resource actor and the event loop of Simulation.run.                    *)
(*                                                                         *)
(* Fixed-point units: time in milliseconds, energy in tenths of a point,   *)
(* mana in thousandths of a point, probabilities and uniform draws in      *)
(* permille.  A draw r models np.random.rand() = r / 1000.                 *)
(***************************************************************************)
EXTENDS Integers, Sequences, FiniteSets, TLC

VARIABLES cfg, player, sim, time, previous_time, pc, ev, steplog, err

vars == <<cfg, player, sim, time, previous_time, pc, ev, steplog, err>>

(***************************************************************************)
(* Bounds of the model.                                                    *)
(***************************************************************************)
\* fight length, in seconds, of the trials with every random outcome enabled
ShortFight == 6
\* fight length, in seconds, of the trials with deterministic attack tables
LongFight == 36
\* fight length, in seconds, of the trial with haste weapon swaps
HasteFight == 125
\* number of keyword arguments given to Simulation(...)
MaxKwargs == 3
\* length of the list given to set_active_debuffs
MaxDebuffs == 3
\* time, in seconds, during which a trinket is updated and attacks are made
TrinketHorizon == 200
\* activations of a trinket that stack on one another
MaxProcs == 3
\* timesteps of a trial whose damage is tallied
TallySteps == 2
\* replicates run one after another on one Simulation
MaxTrials == 2
\* time, in seconds, during which the Player methods are called directly
PlayerHorizon == 6
\* representative values of np.random.rand(), in permille
Rolls == {0, 999}

(***************************************************************************)
(* Scales and program constants.                                           *)
(***************************************************************************)
MS == 1000
EN == 10
MANA == 1000

Min(a, b) == IF a <= b THEN a ELSE b
Max(a, b) == IF a >= b THEN a ELSE b

\* np.arange(start, stop, step): start + i*step for i < ceil((stop-start)/step)
arange(start, stop, step) ==
    IF stop <= start THEN <<>>
    ELSE [i \in 1..((stop - start + step - 1) \div step) |-> start + (i - 1) * step]

\* integer square root, used for sqrt(intellect)
Isqrt(n) == CHOOSE r \in 0..n : r * r <= n /\ (r + 1) * (r + 1) > n

(***************************************************************************)
(* Damage resolver: outcome part of the two roll tables.                   *)
(***************************************************************************)
calc_white_damage(miss_chance, crit_chance, outcome_roll) ==
    IF outcome_roll < miss_chance THEN [miss |-> TRUE, crit |-> FALSE]
    ELSE IF outcome_roll < miss_chance + 240 THEN [miss |-> FALSE, crit |-> FALSE]
    ELSE IF outcome_roll < miss_chance + 240 + crit_chance
         THEN [miss |-> FALSE, crit |-> TRUE]
    ELSE [miss |-> FALSE, crit |-> FALSE]

calc_yellow_damage(miss_chance, crit_chance, miss_roll, crit_roll) ==
    IF miss_roll < miss_chance THEN [miss |-> TRUE, crit |-> FALSE]
    ELSE IF crit_roll < crit_chance THEN [miss |-> FALSE, crit |-> TRUE]
    ELSE [miss |-> FALSE, crit |-> FALSE]

\* calc_swing_timer / calc_haste_rating, swing timer in ms, haste in rating
calc_swing_timer(haste_rating) == (1577 * MS) \div (1577 + haste_rating)

calc_haste_rating(swing_timer) == (1577 * (MS - swing_timer)) \div swing_timer

(***************************************************************************)
(* Player: derived parameters (set_mana_regen, calc_damage_params).        *)
(***************************************************************************)
regen_factor(c) == 18654 * Isqrt(c.intellect)

base_regen(c) == (c.spirit * regen_factor(c)) \div MANA

bonus_regen(c) == (c.mp5 * 2 * MANA) \div 5

regen_rates(c) ==
    [base |-> base_regen(c) + bonus_regen(c),
     five_second_rule |-> (c.intensity * base_regen(c)) \div 10 + bonus_regen(c),
     innervated |-> 5 * base_regen(c) + bonus_regen(c)]

shift_cost(c) == 83 * (10 - c.natural_shapeshifter) * MANA

pot_threshold(c) ==
    IF c.cheap_pot THEN c.mana_pool - 3000 * MANA
    ELSE c.mana_pool - (4800 * MANA + 18 * regen_rates(c).five_second_rule
                        + (1332 * MS * MANA) \div c.swing_timer + 532800
                        - (36 * shift_cost(c)) \div 5)

\* rip_tick of calc_damage_params: damage per tick in hundredths, defined for
\* 4 and 5 combo points only
rip_tick(c) ==
    [cp \in {4, 5} |->
        (((IF cp = 5 THEN 1092 ELSE 894) * 100 + 24 * c.attack_power) * 11) \div 60]

(***************************************************************************)
(* Player.reset                                                            *)
(***************************************************************************)
reset(c) ==
    [gcd |-> 0, omen_proc |-> FALSE, omen_icd |-> 0, energy |-> 100 * EN,
     combo_points |-> 0, mana |-> c.mana_pool, rune_cd |-> 0, pot_cd |-> 0,
     pot_active |-> FALSE, innervated |-> FALSE, innervate_cd |-> 0,
     five_second_rule |-> FALSE, cat_form |-> TRUE, t4_proc |-> FALSE,
     \* attributes that reset() leaves alone and that are written before use
     pot_ticks |-> <<>>, pot_end |-> 0, innervate_end |-> 0,
     last_cast_time |-> 0]

(***************************************************************************)
(* Secondary procs on a successful attack.                                 *)
(***************************************************************************)
check_omen_proc(p, yellow, proc_roll) ==
    IF ~cfg.omen THEN p
    ELSE IF p.omen_icd > 0 THEN p
    ELSE IF proc_roll * 60 * 10 < 2000 * (IF yellow THEN cfg.weapon_speed ELSE 10)
         THEN [p EXCEPT !.omen_proc = TRUE, !.omen_icd = 10 * MS]
    ELSE p

check_jow_proc(p, proc_roll) ==
    IF ~cfg.jow THEN p
    ELSE IF proc_roll < 500
         THEN [p EXCEPT !.mana = Min(p.mana + 74 * MANA, cfg.mana_pool)]
    ELSE p

check_t4_proc(p, proc_roll) ==
    IF ~cfg.t4_bonus THEN [p EXCEPT !.t4_proc = FALSE]
    ELSE IF proc_roll < 40
         THEN [p EXCEPT !.energy = Min(p.energy + 20 * EN, 100 * EN),
                        !.t4_proc = TRUE]
    ELSE [p EXCEPT !.t4_proc = FALSE]

\* the three checks made by every attack that did not miss
check_procs(p, miss, yellow, r_omen, r_jow, r_t4) ==
    IF miss THEN p
    ELSE check_t4_proc(check_jow_proc(check_omen_proc(p, yellow, r_omen), r_jow),
                       r_t4)

(***************************************************************************)
(* Player.regen_mana, use_rune, use_pot                                    *)
(***************************************************************************)
regen_mana(p, pot) ==
    LET regen == IF pot THEN 400 * MANA
                 ELSE IF p.innervated THEN regen_rates(cfg).innervated
                 ELSE IF p.five_second_rule THEN regen_rates(cfg).five_second_rule
                 ELSE regen_rates(cfg).base
    IN [p EXCEPT !.mana = Min(p.mana + regen, cfg.mana_pool)]

rune_used(p) ==
    ~((~cfg.rune) \/ (p.rune_cd > 0) \/ (p.mana > cfg.mana_pool - 1500 * MANA))

use_rune(p, roll) ==
    IF ~rune_used(p) THEN p
    ELSE [p EXCEPT !.mana = p.mana + (900 * MANA + roll * 600),
                   !.rune_cd = 120 * MS]

pot_used(p) ==
    ~((~cfg.pot) \/ (p.pot_cd > 0) \/ (p.mana > pot_threshold(cfg)))

use_pot(p, t, roll) ==
    IF ~pot_used(p) THEN p
    ELSE IF cfg.cheap_pot
         THEN [p EXCEPT !.pot_cd = 120 * MS,
                        !.mana = p.mana + (1800 * MANA + roll * 1200)]
    ELSE [p EXCEPT !.pot_cd = 120 * MS,
                   !.pot_active = TRUE,
                   !.pot_ticks = arange(t + 3 * MS, t + 24010, 3 * MS),
                   !.pot_end = t + 24 * MS]

(***************************************************************************)
(* Player.swing                                                            *)
(***************************************************************************)
swing(p, outcome_roll, r_omen, r_jow, r_t4) ==
    LET o == calc_white_damage(cfg.miss_chance, cfg.crit_chance, outcome_roll)
    IN check_procs(p, o.miss, FALSE, r_omen, r_jow, r_t4)

(***************************************************************************)
(* Player.execute_builder (Shred 42, Claw 40, Mangle 40)                   *)
(***************************************************************************)
\* execute_builder without the cap of 5 combo points
execute_builder_uncapped(p, energy_cost, o, r_omen, r_jow, r_t4) ==
    LET clearcast == p.omen_proc
        p1 == [p EXCEPT !.gcd = 1 * MS]
        p2 == IF clearcast THEN [p1 EXCEPT !.omen_proc = FALSE]
              ELSE [p1 EXCEPT !.energy =
                        p1.energy - (IF o.miss THEN energy_cost * 2
                                     ELSE energy_cost * EN)]
        points_added == (IF o.miss THEN 0 ELSE 1) + (IF o.crit THEN 1 ELSE 0)
        p3 == [p2 EXCEPT !.combo_points = p2.combo_points + points_added]
    IN check_procs(p3, o.miss, TRUE, r_omen, r_jow, r_t4)

\* execute_builder without the bonus combo point of a critical hit
execute_builder_no_crit_bonus(p, energy_cost, o, r_omen, r_jow, r_t4) ==
    LET clearcast == p.omen_proc
        p1 == [p EXCEPT !.gcd = 1 * MS]
        p2 == IF clearcast THEN [p1 EXCEPT !.omen_proc = FALSE]
              ELSE [p1 EXCEPT !.energy =
                        p1.energy - (IF o.miss THEN energy_cost * 2
                                     ELSE energy_cost * EN)]
        p3 == [p2 EXCEPT !.combo_points =
                   Min(5, p2.combo_points + (IF o.miss THEN 0 ELSE 1))]
    IN check_procs(p3, o.miss, TRUE, r_omen, r_jow, r_t4)

\* execute_builder charging the energy cost of a clearcast as well
execute_builder_charged(p, energy_cost, o, r_omen, r_jow, r_t4) ==
    LET p1 == [p EXCEPT !.gcd = 1 * MS, !.omen_proc = FALSE]
        p2 == [p1 EXCEPT !.energy =
                        p1.energy - (IF o.miss THEN energy_cost * 2
                                     ELSE energy_cost * EN)]
        points_added == (IF o.miss THEN 0 ELSE 1) + (IF o.crit THEN 1 ELSE 0)
        p3 == [p2 EXCEPT !.combo_points = Min(5, p2.combo_points + points_added)]
    IN check_procs(p3, o.miss, TRUE, r_omen, r_jow, r_t4)

execute_builder(p, energy_cost, o, r_omen, r_jow, r_t4) ==
    LET clearcast == p.omen_proc
        p1 == [p EXCEPT !.gcd = 1 * MS]
        p2 == IF clearcast THEN [p1 EXCEPT !.omen_proc = FALSE]
              ELSE [p1 EXCEPT !.energy =
                        p1.energy - (IF o.miss THEN energy_cost * 2
                                     ELSE energy_cost * EN)]
        points_added == (IF o.miss THEN 0 ELSE 1) + (IF o.crit THEN 1 ELSE 0)
        p3 == [p2 EXCEPT !.combo_points = Min(5, p2.combo_points + points_added)]
    IN check_procs(p3, o.miss, TRUE, r_omen, r_jow, r_t4)

shred(p, o, r_omen, r_jow, r_t4) == execute_builder(p, 42, o, r_omen, r_jow, r_t4)

claw(p, o, r_omen, r_jow, r_t4) == execute_builder(p, 40, o, r_omen, r_jow, r_t4)

mangle(p, o, r_omen, r_jow, r_t4) == execute_builder(p, 40, o, r_omen, r_jow, r_t4)

(***************************************************************************)
(* Player.bite: bite_low / bite_high are defined for 4 and 5 combo points. *)
(***************************************************************************)
bite_defined(p) == p.combo_points \in {4, 5}

\* bite draining the energy pool whether or not it lands
bite_drains_on_miss(p, o, r_omen, r_jow, r_t4) ==
    LET clearcast == p.omen_proc
        p1 == IF clearcast THEN [p EXCEPT !.omen_proc = FALSE]
              ELSE [p EXCEPT !.energy = p.energy - 35 * EN]
        p2 == [p1 EXCEPT !.energy = 0,
                         !.combo_points = IF o.miss THEN p1.combo_points ELSE 0,
                         !.gcd = 1 * MS]
    IN check_procs(p2, o.miss, TRUE, r_omen, r_jow, r_t4)

bite(p, o, r_omen, r_jow, r_t4) ==
    LET clearcast == p.omen_proc
        p1 == IF clearcast THEN [p EXCEPT !.omen_proc = FALSE]
              ELSE [p EXCEPT !.energy = p.energy - 35 * EN]
        p2 == [p1 EXCEPT !.energy = IF o.miss THEN p1.energy ELSE 0,
                         !.combo_points = IF o.miss THEN p1.combo_points ELSE 0,
                         !.gcd = 1 * MS]
    IN check_procs(p2, o.miss, TRUE, r_omen, r_jow, r_t4)

(***************************************************************************)
(* Player.rip: rip_tick is defined for 4 and 5 combo points.               *)
(***************************************************************************)
rip_defined(p) == p.combo_points \in DOMAIN rip_tick(cfg)

rip_miss(miss_roll) == miss_roll < cfg.miss_chance

rip_damage_per_tick(p, miss) ==
    IF miss THEN 0 ELSE rip_tick(cfg)[p.combo_points]

\* rip consuming the combo points whether or not it lands
player_rip_spends_on_miss(p, miss, r_omen, r_jow, r_t4) ==
    LET clearcast == p.omen_proc
        p1 == [p EXCEPT !.gcd = 1 * MS]
        p2 == IF clearcast THEN [p1 EXCEPT !.omen_proc = FALSE]
              ELSE [p1 EXCEPT !.energy = p1.energy - 30 * EN]
        p3 == [p2 EXCEPT !.combo_points = 0]
    IN check_procs(p3, miss, TRUE, r_omen, r_jow, r_t4)

player_rip(p, miss, r_omen, r_jow, r_t4) ==
    LET clearcast == p.omen_proc
        p1 == [p EXCEPT !.gcd = 1 * MS]
        p2 == IF clearcast THEN [p1 EXCEPT !.omen_proc = FALSE]
              ELSE [p1 EXCEPT !.energy = p1.energy - 30 * EN]
        p3 == [p2 EXCEPT !.combo_points = IF miss THEN p2.combo_points ELSE 0]
    IN check_procs(p3, miss, TRUE, r_omen, r_jow, r_t4)

(***************************************************************************)
(* Player.shift, Player.innervate                                          *)
(***************************************************************************)
shift(p, t, r_rune, r_pot) ==
    LET p1 == [p EXCEPT !.energy = 60 * EN,
                        !.gcd = 1500,
                        !.mana = p.mana - shift_cost(cfg),
                        !.five_second_rule = TRUE,
                        !.last_cast_time = t,
                        !.cat_form = TRUE]
    IN use_pot(use_rune(p1, r_rune), t, r_pot)

innervate(p, t) ==
    [p EXCEPT !.mana = p.mana - 95 * MANA,
              !.innervate_end = t + 20 * MS,
              !.innervated = TRUE,
              !.cat_form = FALSE,
              !.energy = 0,
              !.gcd = 1500,
              !.innervate_cd = 360 * MS]

(***************************************************************************)
(* Simulation: construction parameters.  Each configuration is one call of *)
(* Player(...) and Simulation(player, fight_length, num_mcp, **strategy).  *)
(***************************************************************************)
\* miss, crit, Omen of Clarity and Judgement of Wisdom enabled; the mana pool
\* lasts two shifts
CfgRandom ==
    [attack_power |-> 2700, miss_chance |-> 65, crit_chance |-> 350,
     armor_pen |-> 0, bonus_damage |-> 0,
     swing_timer |-> 1 * MS, mana_pool |-> 1200 * MANA, intellect |-> 225,
     spirit |-> 150, mp5 |-> 0, jow |-> TRUE, pot |-> TRUE, cheap_pot |-> FALSE,
     rune |-> TRUE, t4_bonus |-> FALSE, omen |-> TRUE,
     natural_shapeshifter |-> 3, intensity |-> 3, weapon_speed |-> 30,
     prepop_TF |-> FALSE, prepop_numticks |-> 2, min_combos_for_rip |-> 4,
     use_innervate |-> TRUE, max_mcp |-> 0, fight_length |-> ShortFight * MS]

\* miss and the 2-piece T4 energy proc enabled
CfgT4 ==
    [CfgRandom EXCEPT !.crit_chance = 0, !.jow = FALSE, !.omen = FALSE,
                      !.t4_bonus = TRUE]

\* Tiger's Fury pre-popped three energy ticks before the pull
CfgPrepop3 ==
    [CfgRandom EXCEPT !.crit_chance = 0, !.jow = FALSE, !.omen = FALSE,
                      !.prepop_TF = TRUE, !.prepop_numticks = 3]

\* hit-capped, no crits, no procs: one attack outcome per cast
CfgLong ==
    [CfgRandom EXCEPT !.miss_chance = 0, !.crit_chance = 0, !.jow = FALSE,
                      !.omen = FALSE, !.mana_pool = 3000 * MANA,
                      !.use_innervate = FALSE, !.prepop_TF = TRUE,
                      !.prepop_numticks = 0, !.fight_length = LongFight * MS]

\* a mana pool between one shift and one shift plus one Innervate
CfgLowMana ==
    [CfgRandom EXCEPT !.jow = FALSE, !.omen = FALSE, !.mana_pool = 650 * MANA]

\* Fel Mana Potion, no rune, no Natural Shapeshifter
CfgPot ==
    [CfgLong EXCEPT !.rune = FALSE, !.natural_shapeshifter = 0,
                    !.mana_pool = 2000 * MANA, !.prepop_TF = FALSE]

\* Super Mana Potion
CfgCheapPot == [CfgPot EXCEPT !.cheap_pot = TRUE, !.mana_pool = 3400 * MANA]

\* Rip at three combo points, the lowest value offered by the front end
CfgRip3 ==
    [CfgLong EXCEPT !.min_combos_for_rip = 3, !.prepop_numticks = 1]

\* two haste weapons (Manual Crowd Pummeler): the first is active at the pull,
\* falls off after 90 seconds and the second is swapped in during a shift
CfgMcp ==
    [CfgLong EXCEPT !.max_mcp = 2, !.mana_pool = 6000 * MANA,
                    !.fight_length = HasteFight * MS]

Configs ==
    {CfgRandom, CfgT4, CfgPrepop3, CfgLowMana, CfgLong, CfgPot, CfgCheapPot,
     CfgRip3, CfgMcp}

\* configurations of the Player when its methods are called directly
CfgPlayer == [CfgRandom EXCEPT !.mana_pool = 2400 * MANA, !.t4_bonus = TRUE]

PlayerConfigs == {CfgPlayer}

fight_length == cfg.fight_length

innervate_threshold == 2 * shift_cost(cfg) + 95 * MANA

NoEvent == [name |-> "none", miss |-> FALSE, crit |-> FALSE, clearcast |-> FALSE]

Cast(name, miss, crit, clearcast) ==
    [name |-> name, miss |-> miss, crit |-> crit, clearcast |-> clearcast]

(***************************************************************************)
(* Simulation.update_swing_times                                           *)
(***************************************************************************)
update_swing_times(swing_timer, start_time) ==
    IF start_time > fight_length - swing_timer
    THEN <<start_time, start_time + swing_timer>>
    ELSE arange(start_time, fight_length + swing_timer, swing_timer)

(***************************************************************************)
(* State after Player(...) and Simulation(...): the player is reset, no    *)
(* trial has started.                                                      *)
(***************************************************************************)
Init ==
    /\ cfg \in Configs
    /\ player = reset(cfg)
    /\ sim = [mangle_debuff |-> FALSE, rip_debuff |-> FALSE, mangle_end |-> 0,
              rip_end |-> 0, rip_ticks |-> <<>>, rip_damage |-> 0,
              swing_timer |-> cfg.swing_timer, swing_times |-> <<>>,
              energy_tick_times |-> <<>>, tf_active |-> FALSE, tf_end |-> 0,
              num_mcp |-> 0, mcp_equipped |-> FALSE, mcp_active |-> FALSE,
              mcp_end |-> 0, mcp_cd |-> 0, time_to_oom |-> -1, next_tick |-> 0]
    /\ time = 0
    /\ previous_time = 0
    /\ pc = "constructed"
    /\ ev = NoEvent
    /\ steplog = <<>>
    /\ err = "none"

(***************************************************************************)
(* Simulation.run, lines 993-1067: initialisation of a trial.              *)
(***************************************************************************)
\* lines 993-1063 on the Player: p0 is the player as Player.reset leaves it
begin_player(p0) ==
    IF cfg.prepop_TF
    THEN [p0 EXCEPT !.energy = p0.energy - 10 * EN * (2 - cfg.prepop_numticks)]
    ELSE p0

\* lines 993-1063 on the Simulation: the attributes and locals that are not
\* assigned keep the value they had
begin_sim(s, energy_tick_start, swing_timer_start) ==
    LET mcp == cfg.max_mcp >= 1
    IN [s EXCEPT
          !.mangle_debuff = FALSE,
          !.rip_debuff = FALSE,
          !.energy_tick_times =
              arange(energy_tick_start, fight_length + 2 * MS, 2 * MS),
          !.swing_timer = cfg.swing_timer,
          !.swing_times =
              update_swing_times(cfg.swing_timer, swing_timer_start),
          !.tf_active = cfg.prepop_TF,
          !.tf_end = IF cfg.prepop_TF
                     THEN energy_tick_start - 100 + 6 * MS
                          - 2 * MS * cfg.prepop_numticks
                     ELSE s.tf_end,
          !.num_mcp = IF mcp THEN cfg.max_mcp - 1 ELSE cfg.max_mcp,
          !.mcp_equipped = mcp,
          !.mcp_active = IF mcp THEN TRUE ELSE s.mcp_active,
          !.mcp_end = IF mcp THEN 90 * MS ELSE s.mcp_end,
          !.mcp_cd = IF mcp THEN 0 ELSE s.mcp_cd,
          !.time_to_oom = -1]

\* the initialisation of a trial
run_begin(p0) ==
    /\ \E r_tick \in Rolls, r_swing \in Rolls :
          /\ player' = begin_player(p0)
          /\ sim' = begin_sim(sim, 2 * r_tick, r_swing \div 10)
    /\ time' = 0
    /\ previous_time' = 0
    /\ pc' = "loop"
    /\ ev' = NoEvent
    /\ steplog' = <<>>
    /\ UNCHANGED err

\* the first trial of a Simulation
RunBegin ==
    /\ pc = "constructed"
    /\ run_begin(reset(cfg))
    /\ UNCHANGED cfg

(***************************************************************************)
(* Loop test, line 1069.                                                   *)
(***************************************************************************)
LoopExit ==
    /\ pc = "loop"
    /\ ~(time <= fight_length)
    /\ pc' = "done"
    /\ UNCHANGED <<cfg, player, sim, time, previous_time, ev, steplog, err>>

(***************************************************************************)
(* Lines 1073-1137: cooldown decay and the expirations checked first.      *)
(***************************************************************************)
decay(p, delta_t) ==
    [p EXCEPT !.gcd = Max(0, p.gcd - delta_t),
              !.omen_icd = Max(0, p.omen_icd - delta_t),
              !.rune_cd = Max(0, p.rune_cd - delta_t),
              !.pot_cd = Max(0, p.pot_cd - delta_t),
              !.innervate_cd = Max(0, p.innervate_cd - delta_t)]

Expirations ==
    /\ pc = "loop"
    /\ time <= fight_length
    /\ LET delta_t == time - previous_time
           p1 == decay(player, delta_t)
           mcp_cd1 == IF sim.mcp_equipped THEN Max(0, sim.mcp_cd - delta_t)
                      ELSE sim.mcp_cd
           fsr_off == p1.five_second_rule /\ (time - p1.last_cast_time >= 5 * MS)
           inn_off == p1.innervated /\ (time >= p1.innervate_end)
           tf_off == sim.tf_active /\ (time >= sim.tf_end)
           haste_off == sim.mcp_equipped /\ sim.mcp_active /\ (time >= sim.mcp_end)
           haste_on == ~haste_off /\ sim.mcp_equipped /\ ~sim.mcp_active
                       /\ (mcp_cd1 = 0)
           mangle_off == sim.mangle_debuff /\ (time >= sim.mangle_end)
           timer1 == IF haste_off
                     THEN calc_swing_timer(calc_haste_rating(sim.swing_timer) - 500)
                     ELSE IF haste_on
                     THEN calc_swing_timer(calc_haste_rating(sim.swing_timer) + 500)
                     ELSE sim.swing_timer
       IN IF (haste_off \/ haste_on) /\ sim.swing_times = <<>>
          THEN /\ pc' = "raised"
               /\ err' = "IndexError"
               /\ UNCHANGED <<player, sim, steplog>>
          ELSE /\ player' = [p1 EXCEPT
                     !.five_second_rule = IF fsr_off THEN FALSE ELSE @,
                     !.innervated = IF inn_off THEN FALSE ELSE @]
               /\ sim' = [sim EXCEPT
                     !.mcp_cd = mcp_cd1,
                     !.tf_active = IF tf_off THEN FALSE ELSE @,
                     !.mcp_active = IF haste_off THEN FALSE
                                    ELSE IF haste_on THEN TRUE ELSE @,
                     !.mcp_equipped = IF haste_off THEN FALSE ELSE @,
                     !.mcp_end = IF haste_on THEN time + 90 * MS ELSE @,
                     !.swing_timer = timer1,
                     !.swing_times =
                         IF haste_off \/ haste_on
                         THEN update_swing_times(timer1, sim.swing_times[1])
                         ELSE @,
                     !.mangle_debuff = IF mangle_off THEN FALSE ELSE @]
               /\ steplog' =
                     (IF inn_off THEN <<"Innervate falls off">> ELSE <<>>)
                     \o (IF tf_off THEN <<"Tiger's Fury falls off">> ELSE <<>>)
                     \o (IF haste_off THEN <<"Haste falls off">> ELSE <<>>)
                     \o (IF haste_on THEN <<"Haste applied">> ELSE <<>>)
                     \o (IF mangle_off THEN <<"Mangle falls off">> ELSE <<>>)
               /\ pc' = "rip"
               /\ UNCHANGED err
    /\ ev' = NoEvent
    /\ UNCHANGED <<cfg, time, previous_time>>

(***************************************************************************)
(* Lines 1139-1158: Rip tick, then Rip expiry.                             *)
(***************************************************************************)
\* the Rip expiry checked before the Rip tick
RipTick_expiry_first ==
    /\ pc = "rip"
    /\ IF sim.rip_debuff /\ sim.rip_ticks = <<>>
       THEN /\ pc' = "raised"
            /\ err' = "IndexError"
            /\ UNCHANGED <<sim, steplog>>
       ELSE LET tick == sim.rip_debuff /\ (time = sim.rip_ticks[1])
                rip_off == sim.rip_debuff /\ (time > sim.rip_end - 1)
            IN /\ sim' = [sim EXCEPT
                     !.rip_ticks = IF tick THEN Tail(@) ELSE @,
                     !.rip_debuff = IF rip_off THEN FALSE ELSE @]
               /\ steplog' = steplog
                     \o (IF rip_off THEN <<"Rip falls off">> ELSE <<>>)
                     \o (IF tick THEN <<"Rip tick">> ELSE <<>>)
               /\ pc' = "swing"
               /\ UNCHANGED err
    /\ UNCHANGED <<cfg, player, time, previous_time, ev>>

RipTick ==
    /\ pc = "rip"
    /\ IF sim.rip_debuff /\ sim.rip_ticks = <<>>
       THEN /\ pc' = "raised"
            /\ err' = "IndexError"
            /\ UNCHANGED <<sim, steplog>>
       ELSE LET tick == sim.rip_debuff /\ (time = sim.rip_ticks[1])
                rip_off == sim.rip_debuff /\ (time > sim.rip_end - 1)
            IN /\ sim' = [sim EXCEPT
                     !.rip_ticks = IF tick THEN Tail(@) ELSE @,
                     !.rip_debuff = IF rip_off THEN FALSE ELSE @]
               /\ steplog' = steplog
                     \o (IF tick THEN <<"Rip tick">> ELSE <<>>)
                     \o (IF rip_off THEN <<"Rip falls off">> ELSE <<>>)
               /\ pc' = "swing"
               /\ UNCHANGED err
    /\ UNCHANGED <<cfg, player, time, previous_time, ev>>

(***************************************************************************)
(* Lines 1160-1168: melee swing.                                           *)
(***************************************************************************)
Swing ==
    /\ pc = "swing"
    /\ IF sim.swing_times = <<>>
       THEN /\ pc' = "raised"
            /\ err' = "IndexError"
            /\ UNCHANGED <<player, sim, steplog>>
       ELSE IF time = sim.swing_times[1]
       THEN /\ \E outcome_roll \in Rolls, r_omen \in Rolls, r_jow \in Rolls,
                  r_t4 \in Rolls :
                  player' = swing(player, outcome_roll, r_omen, r_jow, r_t4)
            /\ sim' = [sim EXCEPT !.swing_times = Tail(@)]
            /\ steplog' = Append(steplog, "melee")
            /\ pc' = "tick"
            /\ UNCHANGED err
       ELSE /\ pc' = "tick"
            /\ UNCHANGED <<player, sim, steplog, err>>
    /\ UNCHANGED <<cfg, time, previous_time, ev>>

(***************************************************************************)
(* Lines 1170-1181: energy / spirit tick.                                  *)
(***************************************************************************)
energy_tick(p) ==
    regen_mana([p EXCEPT !.energy = IF p.cat_form
                                    THEN Min(100 * EN, p.energy + 20 * EN)
                                    ELSE 0],
               FALSE)

EnergyTick ==
    /\ pc = "tick"
    /\ IF sim.energy_tick_times = <<>>
       THEN /\ pc' = "raised"
            /\ err' = "IndexError"
            /\ UNCHANGED <<player, sim, steplog>>
       ELSE IF time = sim.energy_tick_times[1]
       THEN /\ player' = energy_tick(player)
            /\ sim' = [sim EXCEPT !.energy_tick_times = Tail(@)]
            /\ steplog' = Append(steplog, "energy tick")
            /\ pc' = "pot"
            /\ UNCHANGED err
       ELSE /\ pc' = "pot"
            /\ UNCHANGED <<player, sim, steplog, err>>
    /\ UNCHANGED <<cfg, time, previous_time, ev>>

(***************************************************************************)
(* Lines 1183-1203: Fel Mana tick, Fel Mana expiry, next energy tick.      *)
(***************************************************************************)
PotTick ==
    /\ pc = "pot"
    /\ IF (player.pot_active /\ player.pot_ticks = <<>>)
          \/ sim.energy_tick_times = <<>>
       THEN /\ pc' = "raised"
            /\ err' = "IndexError"
            /\ UNCHANGED <<player, sim, steplog>>
       ELSE LET tick == player.pot_active /\ (time = player.pot_ticks[1])
                p1 == IF tick
                      THEN [regen_mana(player, TRUE) EXCEPT !.pot_ticks = Tail(@)]
                      ELSE player
                pot_off == p1.pot_active /\ (time > p1.pot_end - 1)
            IN /\ player' = [p1 EXCEPT !.pot_active = IF pot_off THEN FALSE ELSE @]
               /\ sim' = [sim EXCEPT !.next_tick = sim.energy_tick_times[1]]
               /\ steplog' = steplog
                     \o (IF tick THEN <<"Fel Mana tick">> ELSE <<>>)
                     \o (IF pot_off THEN <<"Fel Mana falls off">> ELSE <<>>)
               /\ pc' = "rotate"
               /\ UNCHANGED err
    /\ UNCHANGED <<cfg, time, previous_time, ev>>

(***************************************************************************)
(* Simulation.execute_rotation: the decision of the rotation policy.       *)
(***************************************************************************)
rip_now(p, s) == (p.combo_points >= cfg.min_combos_for_rip) /\ (~s.rip_debuff)

mangle_now(p, s) == (~rip_now(p, s)) /\ (~s.mangle_debuff)

rip_next(p, s) ==
    rip_now(p, s)
    \/ ((p.combo_points >= cfg.min_combos_for_rip) /\ (s.rip_end <= s.next_tick))

mangle_next(p, s) ==
    (~rip_next(p, s)) /\ (mangle_now(p, s) \/ (s.mangle_end <= s.next_tick))

oom(p) == p.mana < shift_cost(cfg)

\* the Mangle debuff is looked at before Rip
Decision_mangle_first(p, s) ==
    IF ~p.cat_form THEN "shift_back"
    ELSE IF (~s.mangle_debuff) /\ ((p.energy >= 40 * EN) \/ p.omen_proc)
    THEN "mangle"
    ELSE IF rip_now(p, s) /\ ((p.energy >= 30 * EN) \/ p.omen_proc) THEN "rip"
    ELSE IF (p.energy >= 42 * EN) \/ p.omen_proc THEN "shred"
    ELSE IF oom(p) THEN "none"
    ELSE "innervate_or_shift"

\* execute_rotation shifting whenever there is not enough energy to Shred
Decision_shift_below_shred(p, s) ==
    IF ~p.cat_form THEN "shift_back"
    ELSE IF oom(p)
    THEN IF rip_now(p, s) /\ ((p.energy >= 30 * EN) \/ p.omen_proc) THEN "rip"
         ELSE IF mangle_now(p, s) /\ ((p.energy >= 40 * EN) \/ p.omen_proc)
              THEN "mangle"
         ELSE IF (p.energy >= 42 * EN) \/ p.omen_proc THEN "shred"
         ELSE "none"
    ELSE IF p.energy < 10 * EN THEN "innervate_or_shift"
    ELSE IF rip_now(p, s)
    THEN IF (p.energy >= 30 * EN) \/ p.omen_proc THEN "rip" ELSE "none"
    ELSE IF mangle_now(p, s)
    THEN IF (p.energy < 20 * EN) /\ (~rip_next(p, s)) THEN "innervate_or_shift"
         ELSE IF (p.energy >= 40 * EN) \/ p.omen_proc THEN "mangle"
         ELSE "none"
    ELSE IF p.energy >= 42 * EN
    THEN IF (p.energy >= 42 * EN) \/ p.omen_proc THEN "shred" ELSE "none"
    ELSE IF (~rip_next(p, s)) /\ ((p.energy < 20 * EN) \/ (~mangle_next(p, s)))
    THEN "innervate_or_shift"
    ELSE "none"

Decision(p, s) ==
    IF ~p.cat_form THEN "shift_back"
    ELSE IF oom(p)
    THEN IF rip_now(p, s) /\ ((p.energy >= 30 * EN) \/ p.omen_proc) THEN "rip"
         ELSE IF mangle_now(p, s) /\ ((p.energy >= 40 * EN) \/ p.omen_proc)
              THEN "mangle"
         ELSE IF (p.energy >= 42 * EN) \/ p.omen_proc THEN "shred"
         ELSE "none"
    ELSE IF p.energy < 10 * EN THEN "innervate_or_shift"
    ELSE IF rip_now(p, s)
    THEN IF (p.energy >= 30 * EN) \/ p.omen_proc THEN "rip" ELSE "none"
    ELSE IF mangle_now(p, s)
    THEN IF (p.energy < 20 * EN) /\ (~rip_next(p, s)) THEN "innervate_or_shift"
         ELSE IF (p.energy >= 40 * EN) \/ p.omen_proc THEN "mangle"
         ELSE "none"
    ELSE IF p.energy >= 22 * EN
    THEN IF (p.energy >= 42 * EN) \/ p.omen_proc THEN "shred" ELSE "none"
    ELSE IF (~rip_next(p, s)) /\ ((p.energy < 20 * EN) \/ (~mangle_next(p, s)))
    THEN "innervate_or_shift"
    ELSE "none"

\* lines 914-917: the first decision taken out of mana is recorded
mark_oom(s, p, t) ==
    IF p.cat_form /\ oom(p) /\ s.time_to_oom = -1
    THEN [s EXCEPT !.time_to_oom = t]
    ELSE s

\* Simulation.innervate_or_shift, lines 833-836: Innervate instead of a shift
cast_innervate(p, t) ==
    /\ cfg.use_innervate
    /\ p.mana <= innervate_threshold
    /\ t < fight_length - 1600
    /\ p.innervate_cd < 1

\* the weapon swap without taking a weapon off the count
swap_mcp_free(s) ==
    IF (~s.mcp_equipped) /\ (s.num_mcp >= 1)
    THEN [s EXCEPT !.mcp_equipped = TRUE, !.mcp_cd = 30 * MS]
    ELSE s

\* Simulation.innervate_or_shift, lines 849-853: weapon swap in the same GCD
swap_mcp(s) ==
    IF (~s.mcp_equipped) /\ (s.num_mcp >= 1)
    THEN [s EXCEPT !.mcp_equipped = TRUE, !.mcp_cd = 30 * MS,
                   !.num_mcp = s.num_mcp - 1]
    ELSE s

\* the policy evaluated at every step
can_act_always == TRUE

can_act == player.gcd < 1

(***************************************************************************)
(* Lines 1205-1209: the policy step, one action per outcome.               *)
(***************************************************************************)
\* the action lock has not elapsed: execute_rotation is not called
Locked ==
    /\ pc = "rotate"
    /\ ~can_act
    /\ pc' = "sample"
    /\ UNCHANGED <<cfg, player, sim, time, previous_time, ev, steplog, err>>

\* execute_rotation returns without acting
PolicyWait ==
    /\ pc = "rotate"
    /\ can_act
    /\ Decision(player, sim) = "none"
    /\ sim' = mark_oom(sim, player, time)
    /\ pc' = "sample"
    /\ UNCHANGED <<cfg, player, time, previous_time, ev, steplog, err>>

\* lines 898-901: out of cat form after Innervate, always shift
PolicyShiftBack ==
    /\ pc = "rotate"
    /\ can_act
    /\ Decision(player, sim) = "shift_back"
    /\ \E r_rune \in Rolls, r_pot \in Rolls :
          player' = shift(player, time, r_rune, r_pot)
    /\ ev' = Cast("shift", FALSE, FALSE, FALSE)
    /\ steplog' = Append(steplog, "shift")
    /\ pc' = "sample"
    /\ UNCHANGED <<cfg, sim, time, previous_time, err>>

\* innervate_or_shift taking the powershift branch
PolicyShift ==
    /\ pc = "rotate"
    /\ can_act
    /\ Decision(player, sim) = "innervate_or_shift"
    /\ ~cast_innervate(player, time)
    /\ \E r_rune \in Rolls, r_pot \in Rolls :
          player' = shift(player, time, r_rune, r_pot)
    /\ sim' = swap_mcp(mark_oom(sim, player, time))
    /\ ev' = Cast("shift", FALSE, FALSE, FALSE)
    /\ steplog' = Append(steplog, "shift")
    /\ pc' = "sample"
    /\ UNCHANGED <<cfg, time, previous_time, err>>

\* innervate_or_shift taking the Innervate branch
PolicyInnervate ==
    /\ pc = "rotate"
    /\ can_act
    /\ Decision(player, sim) = "innervate_or_shift"
    /\ cast_innervate(player, time)
    /\ player' = innervate(player, time)
    /\ \E r_swing \in Rolls :
          sim' = swap_mcp([mark_oom(sim, player, time) EXCEPT
                     !.swing_times =
                         update_swing_times(sim.swing_timer,
                                            time + 1500 + r_swing \div 10)])
    /\ ev' = Cast("Innervate", FALSE, FALSE, FALSE)
    /\ steplog' = Append(steplog, "Innervate")
    /\ pc' = "sample"
    /\ UNCHANGED <<cfg, time, previous_time, err>>

\* Simulation.rip starting the debuff whether or not the Rip landed
sim_rip_on_miss(s, t, damage_per_tick, success) ==
    [s EXCEPT !.rip_debuff = TRUE,
              !.rip_end = t + 12 * MS,
              !.rip_ticks = arange(t + 2 * MS, t + 12010, 2 * MS),
              !.rip_damage = damage_per_tick]

\* Simulation.rip scheduling a seventh tick, 14 s after the cast
sim_rip_seven_ticks(s, t, damage_per_tick, success) ==
    IF success
    THEN [s EXCEPT !.rip_debuff = TRUE,
                   !.rip_end = t + 14 * MS,
                   !.rip_ticks = arange(t + 2 * MS, t + 14010, 2 * MS),
                   !.rip_damage = damage_per_tick]
    ELSE s

\* Simulation.rip
sim_rip(s, t, damage_per_tick, success) ==
    IF success
    THEN [s EXCEPT !.rip_debuff = TRUE,
                   !.rip_end = t + 12 * MS,
                   !.rip_ticks = arange(t + 2 * MS, t + 12010, 2 * MS),
                   !.rip_damage = damage_per_tick]
    ELSE s

PolicyRip ==
    /\ pc = "rotate"
    /\ can_act
    /\ Decision(player, sim) = "rip"
    /\ IF ~rip_defined(player)
       THEN \* self.rip_tick[self.combo_points] raises KeyError
            /\ pc' = "raised"
            /\ err' = "KeyError"
            /\ sim' = mark_oom(sim, player, time)
            /\ UNCHANGED <<player, ev, steplog>>
       ELSE /\ \E miss_roll \in Rolls, r_omen \in Rolls, r_jow \in Rolls,
                  r_t4 \in Rolls :
                  LET miss == rip_miss(miss_roll)
                  IN /\ player' = player_rip(player, miss, r_omen, r_jow, r_t4)
                     /\ sim' = sim_rip(mark_oom(sim, player, time), time,
                                       rip_damage_per_tick(player, miss), ~miss)
                     /\ ev' = Cast("Rip", miss, FALSE, player.omen_proc)
            /\ steplog' = Append(steplog, "Rip")
            /\ pc' = "sample"
            /\ UNCHANGED err
    /\ UNCHANGED <<cfg, time, previous_time>>

\* Simulation.mangle
sim_mangle(s, t, success) ==
    IF success
    THEN [s EXCEPT !.mangle_debuff = TRUE, !.mangle_end = t + 12 * MS]
    ELSE s

PolicyMangle ==
    /\ pc = "rotate"
    /\ can_act
    /\ Decision(player, sim) = "mangle"
    /\ \E miss_roll \in Rolls, crit_roll \in Rolls, r_omen \in Rolls,
          r_jow \in Rolls, r_t4 \in Rolls :
          LET o == calc_yellow_damage(cfg.miss_chance, cfg.crit_chance,
                                      miss_roll, crit_roll)
          IN /\ player' = mangle(player, o, r_omen, r_jow, r_t4)
             /\ sim' = sim_mangle(mark_oom(sim, player, time), time, ~o.miss)
             /\ ev' = Cast("Mangle", o.miss, o.crit, player.omen_proc)
    /\ steplog' = Append(steplog, "Mangle")
    /\ pc' = "sample"
    /\ UNCHANGED <<cfg, time, previous_time, err>>

PolicyShred ==
    /\ pc = "rotate"
    /\ can_act
    /\ Decision(player, sim) = "shred"
    /\ \E miss_roll \in Rolls, crit_roll \in Rolls, r_omen \in Rolls,
          r_jow \in Rolls, r_t4 \in Rolls :
          LET o == calc_yellow_damage(cfg.miss_chance, cfg.crit_chance,
                                      miss_roll, crit_roll)
          IN /\ player' = shred(player, o, r_omen, r_jow, r_t4)
             /\ ev' = Cast("Shred", o.miss, o.crit, player.omen_proc)
    /\ sim' = mark_oom(sim, player, time)
    /\ steplog' = Append(steplog, "Shred")
    /\ pc' = "sample"
    /\ UNCHANGED <<cfg, time, previous_time, err>>

(***************************************************************************)
(* Lines 1211-1239: the timestep is sampled, Tiger's Fury is dropped when  *)
(* the player left cat form, and time moves to the next event.             *)
(***************************************************************************)
\* the recovery delay is added without the test gcd > 1e-9
next_time_untested_gcd(p, s, t) ==
    LET t1 == Min(Min(t + p.gcd, s.swing_times[1]), s.next_tick)
        t2 == IF s.rip_debuff THEN Min(t1, s.rip_ticks[1]) ELSE t1
    IN IF p.pot_active THEN Min(t2, p.pot_ticks[1]) ELSE t2

next_time(p, s, t) ==
    LET next_swing == s.swing_times[1]
        t1 == IF p.gcd > 0 THEN Min(Min(t + p.gcd, next_swing), s.next_tick)
              ELSE Min(next_swing, s.next_tick)
        t2 == IF s.rip_debuff THEN Min(t1, s.rip_ticks[1]) ELSE t1
    IN IF p.pot_active THEN Min(t2, p.pot_ticks[1]) ELSE t2

Advance ==
    /\ pc = "sample"
    /\ LET tf_drop == sim.tf_active /\ (player.gcd = 1500)
       IN IF sim.swing_times = <<>>
             \/ (sim.rip_debuff /\ sim.rip_ticks = <<>>)
             \/ (player.pot_active /\ player.pot_ticks = <<>>)
          THEN /\ pc' = "raised"
               /\ err' = "IndexError"
               /\ UNCHANGED <<sim, time, previous_time, steplog>>
          ELSE /\ sim' = [sim EXCEPT !.tf_active = IF tf_drop THEN FALSE ELSE @]
               /\ previous_time' = time
               /\ time' = next_time(player, sim, time)
               /\ steplog' = IF tf_drop
                             THEN Append(steplog, "Tiger's Fury dropped")
                             ELSE steplog
               /\ pc' = "loop"
               /\ UNCHANGED err
    /\ UNCHANGED <<cfg, player, ev>>

Next ==
    \/ RunBegin
    \/ LoopExit
    \/ Expirations
    \/ RipTick
    \/ Swing
    \/ EnergyTick
    \/ PotTick
    \/ Locked
    \/ PolicyWait
    \/ PolicyShiftBack
    \/ PolicyShift
    \/ PolicyInnervate
    \/ PolicyRip
    \/ PolicyMangle
    \/ PolicyShred
    \/ Advance

Spec == Init /\ [][Next]_vars

\* the trial is scheduled until it returns or raises
FairSpec == Spec /\ WF_vars(Next)

(***************************************************************************)
(* The Player driven directly: each ability is called when the global      *)
(* cooldown has elapsed and the player can pay for it, then the cooldown   *)
(* elapses.  Ferocious Bite is reached only this way: execute_rotation     *)
(* never requests it.                                                      *)
(***************************************************************************)
PlayerInit ==
    /\ cfg \in PlayerConfigs
    /\ player = reset(cfg)
    /\ sim = [mangle_debuff |-> FALSE, rip_debuff |-> FALSE, mangle_end |-> 0,
              rip_end |-> 0, rip_ticks |-> <<>>, rip_damage |-> 0,
              swing_timer |-> cfg.swing_timer, swing_times |-> <<>>,
              energy_tick_times |-> <<>>, tf_active |-> FALSE, tf_end |-> 0,
              num_mcp |-> 0, mcp_equipped |-> FALSE, mcp_active |-> FALSE,
              mcp_end |-> 0, mcp_cd |-> 0, time_to_oom |-> -1, next_tick |-> 0]
    /\ time = 0
    /\ previous_time = 0
    /\ pc = "player"
    /\ ev = NoEvent
    /\ steplog = <<>>
    /\ err = "none"

can_call == pc = "player" /\ player.gcd = 0 /\ time < PlayerHorizon * MS

can_pay(energy_cost) == (player.energy >= energy_cost * EN) \/ player.omen_proc

CallShred ==
    /\ can_call
    /\ can_pay(42)
    /\ \E miss_roll \in Rolls, crit_roll \in Rolls, r_omen \in Rolls,
          r_jow \in Rolls, r_t4 \in Rolls :
          LET o == calc_yellow_damage(cfg.miss_chance, cfg.crit_chance,
                                      miss_roll, crit_roll)
          IN /\ player' = shred(player, o, r_omen, r_jow, r_t4)
             /\ ev' = Cast("Shred", o.miss, o.crit, player.omen_proc)
    /\ UNCHANGED <<cfg, sim, time, previous_time, pc, steplog, err>>

CallClaw ==
    /\ can_call
    /\ can_pay(40)
    /\ \E miss_roll \in Rolls, crit_roll \in Rolls, r_omen \in Rolls,
          r_jow \in Rolls, r_t4 \in Rolls :
          LET o == calc_yellow_damage(cfg.miss_chance, cfg.crit_chance,
                                      miss_roll, crit_roll)
          IN /\ player' = claw(player, o, r_omen, r_jow, r_t4)
             /\ ev' = Cast("Claw", o.miss, o.crit, player.omen_proc)
    /\ UNCHANGED <<cfg, sim, time, previous_time, pc, steplog, err>>

CallMangle ==
    /\ can_call
    /\ can_pay(40)
    /\ \E miss_roll \in Rolls, crit_roll \in Rolls, r_omen \in Rolls,
          r_jow \in Rolls, r_t4 \in Rolls :
          LET o == calc_yellow_damage(cfg.miss_chance, cfg.crit_chance,
                                      miss_roll, crit_roll)
          IN /\ player' = mangle(player, o, r_omen, r_jow, r_t4)
             /\ ev' = Cast("Mangle", o.miss, o.crit, player.omen_proc)
    /\ UNCHANGED <<cfg, sim, time, previous_time, pc, steplog, err>>

CallBite ==
    /\ can_call
    /\ can_pay(35)
    /\ bite_defined(player)
    /\ \E miss_roll \in Rolls, crit_roll \in Rolls, r_omen \in Rolls,
          r_jow \in Rolls, r_t4 \in Rolls :
          LET o == calc_yellow_damage(cfg.miss_chance, cfg.crit_chance,
                                      miss_roll, crit_roll)
          IN /\ player' = bite(player, o, r_omen, r_jow, r_t4)
             /\ ev' = Cast("Ferocious Bite", o.miss, o.crit, player.omen_proc)
    /\ UNCHANGED <<cfg, sim, time, previous_time, pc, steplog, err>>

CallRip ==
    /\ can_call
    /\ can_pay(30)
    /\ rip_defined(player)
    /\ \E miss_roll \in Rolls, r_omen \in Rolls, r_jow \in Rolls, r_t4 \in Rolls :
          LET miss == rip_miss(miss_roll)
          IN /\ player' = player_rip(player, miss, r_omen, r_jow, r_t4)
             /\ ev' = Cast("Rip", miss, FALSE, player.omen_proc)
    /\ UNCHANGED <<cfg, sim, time, previous_time, pc, steplog, err>>

CallShift ==
    /\ can_call
    /\ player.mana >= shift_cost(cfg)
    /\ \E r_rune \in Rolls, r_pot \in Rolls :
          player' = shift(player, time, r_rune, r_pot)
    /\ ev' = Cast("shift", FALSE, FALSE, FALSE)
    /\ UNCHANGED <<cfg, sim, time, previous_time, pc, steplog, err>>

\* the global cooldown elapses, as at lines 1073-1081 of the event loop
CallWait ==
    /\ pc = "player"
    /\ player.gcd > 0
    /\ player' = decay(player, player.gcd)
    /\ time' = time + player.gcd
    /\ previous_time' = time
    /\ ev' = NoEvent
    /\ UNCHANGED <<cfg, sim, pc, steplog, err>>

PlayerNext ==
    \/ CallShred
    \/ CallClaw
    \/ CallMangle
    \/ CallBite
    \/ CallRip
    \/ CallShift
    \/ CallWait

PlayerSpec == PlayerInit /\ [][PlayerNext]_vars

(***************************************************************************)
(* Stat weights: calc_weights of the front end, Simulation.calc_deriv,     *)
(* calc_stat_weights and calc_mana_weights.  cfg holds the attributes of   *)
(* the Player, which calc_deriv perturbs and restores; sim holds the       *)
(* arguments and locals of the calls.  A call of run_replicates either     *)
(* returns or leaves by the exception of a trial (see PolicyRip, PotTick   *)
(* and Advance).                                                           *)
(***************************************************************************)
\* main.py line 1361: replicates needed for a stat weight calculation
MinReplicates == 20000

NumReplicates == {MinReplicates - 1, MinReplicates}

\* a hit chance that leaves the miss chance above 8.5%
CfgLowHit == [CfgRandom EXCEPT !.miss_chance = 100]

WeightConfigs == {CfgRandom, CfgLowHit, CfgRip3}

\* lines 1386-1390: sign of the hit increment
hit_sign(c) == IF c.miss_chance < 85 THEN -1 ELSE 1

\* lines 1401-1405: swing timer change of 4% haste (63.08 rating)
swing_delta(c) ==
    c.swing_timer - calc_swing_timer(calc_haste_rating(c.swing_timer) + 63)

\* lines 1454-1455: spirit that regenerates one shift over an Innervate
spirit_delta(c) == (20 * shift_cost(c)) \div regen_factor(c)

\* line 1469: mp5 that regenerates one shift over the fight
delta_mp5(c) ==
    (5 * MS * (shift_cost(c) \div MANA) + c.fight_length - 1)
        \div c.fight_length

\* the calls of calc_deriv made by calc_stat_weights, in order
stat_derivs(c) ==
    << [stat |-> "1 AP", param |-> "attack_power", increment |-> 80],
       [stat |-> "1% hit", param |-> "miss_chance",
        increment |-> (-hit_sign(c)) * 20],
       [stat |-> "1% crit", param |-> "crit_chance", increment |-> 20],
       [stat |-> "1% haste", param |-> "swing_timer",
        increment |-> -swing_delta(c)],
       [stat |-> "1 Armor Pen", param |-> "armor_pen", increment |-> 300],
       [stat |-> "1 Weapon Damage", param |-> "bonus_damage",
        increment |-> 12] >>

\* the calls of calc_deriv made by calc_mana_weights, in order
mana_derivs(c) ==
    << [stat |-> "1 mana", param |-> "mana_pool", increment |-> shift_cost(c)],
       [stat |-> "1 Spirit", param |-> "spirit", increment |-> spirit_delta(c)],
       [stat |-> "1 mp5", param |-> "mp5", increment |-> delta_mp5(c)] >>

\* exceptions by which a trial of the configuration can leave run
run_errors(c) ==
    {"IndexError"}
        \cup (IF c.min_combos_for_rip \in DOMAIN rip_tick(c) THEN {}
              ELSE {"KeyError"})

WeightsInit ==
    /\ cfg \in WeightConfigs
    /\ player = reset(cfg)
    /\ \E n \in NumReplicates, m \in BOOLEAN, oom_time \in {"none", "oom"} :
          sim = [num_replicates |-> n, calc_mana_weights |-> m,
                 time_to_oom |-> oom_time, attributes |-> cfg, derived |-> cfg,
                 derivs |-> <<>>, done |-> 0, param |-> "none",
                 original_value |-> 0, caller |-> "none", dps_deltas |-> <<>>,
                 weights_table |-> <<>>, label |-> "none",
                 stat_weights_called |-> FALSE]
    /\ time = 0
    /\ previous_time = 0
    /\ pc = "calc_weights"
    /\ ev = NoEvent
    /\ steplog = <<>>
    /\ err = "none"

\* calc_weights, lines 1360-1366: too few replicates
CalcWeightsRefuse ==
    /\ pc = "calc_weights"
    /\ sim.num_replicates < MinReplicates
    /\ sim' = [sim EXCEPT !.label = "Error: "]
    /\ pc' = "returned"
    /\ UNCHANGED <<cfg, player, time, previous_time, ev, steplog, err>>

\* calc_weights, lines 1368-1374, entering calc_stat_weights with base_dps
CalcStatWeights ==
    /\ pc = "calc_weights"
    /\ sim.num_replicates >= MinReplicates
    /\ sim' = [sim EXCEPT !.stat_weights_called = TRUE,
                          !.derivs = stat_derivs(cfg), !.done = 0,
                          !.dps_deltas = <<>>]
    /\ pc' = "calc_stat_weights"
    /\ UNCHANGED <<cfg, player, time, previous_time, ev, steplog, err>>

\* calc_deriv, lines 1332-1334: the attribute is incremented
calc_deriv_begin(s, c, d, from) ==
    [sim |-> [s EXCEPT !.param = d.param, !.original_value = c[d.param],
                       !.caller = from],
     cfg |-> [c EXCEPT ![d.param] = c[d.param] + d.increment]]

CalcDerivBegin ==
    /\ pc \in {"calc_stat_weights", "calc_mana_weights"}
    /\ sim.done < Len(sim.derivs)
    /\ LET d == (IF pc = "calc_stat_weights" THEN stat_derivs(cfg)
                 ELSE mana_derivs(cfg))[sim.done + 1]
           r == calc_deriv_begin(sim, cfg, d, pc)
       IN /\ sim' = r.sim
          /\ cfg' = r.cfg
    /\ steplog' = Append(steplog, sim'.param)
    /\ pc' = "run_replicates"
    /\ UNCHANGED <<player, time, previous_time, ev, err>>

\* the attribute is left as it was incremented
calc_deriv_no_restore(s, c) ==
    [sim |-> [s EXCEPT !.derived = c, !.done = @ + 1,
                       !.dps_deltas = Append(@, s.derivs[s.done + 1].stat)],
     cfg |-> c]

\* run_replicates without lines 1270-1272: the derived parameters are left
\* as the last call computed them
calc_deriv_return_stale(s, c) ==
    [sim |-> [s EXCEPT !.done = @ + 1,
                       !.dps_deltas = Append(@, s.derivs[s.done + 1].stat)],
     cfg |-> [c EXCEPT ![s.param] = s.original_value]]

\* calc_deriv, lines 1336-1342: run_replicates brings the derived parameters
\* up to date (lines 1270-1272) and returns; the attribute is reset
calc_deriv_return(s, c) ==
    [sim |-> [s EXCEPT !.derived = c, !.done = @ + 1,
                       !.dps_deltas = Append(@, s.derivs[s.done + 1].stat)],
     cfg |-> [c EXCEPT ![s.param] = s.original_value]]

CalcDerivReturn ==
    /\ pc = "run_replicates"
    /\ LET r == calc_deriv_return(sim, cfg)
       IN /\ sim' = r.sim
          /\ cfg' = r.cfg
    /\ pc' = sim.caller
    /\ UNCHANGED <<player, time, previous_time, ev, steplog, err>>

\* calc_deriv, line 1337: a trial of run_replicates raises and the exception
\* leaves calc_deriv, calc_stat_weights and calc_weights
CalcDerivRaise ==
    /\ pc = "run_replicates"
    /\ sim' = [sim EXCEPT !.derived = cfg]
    /\ err' \in run_errors(cfg)
    /\ pc' = "raised"
    /\ UNCHANGED <<cfg, player, time, previous_time, ev, steplog>>

\* calc_weights, lines 1376-1404, no mana weights requested
CalcWeightsReturn ==
    /\ pc = "calc_stat_weights"
    /\ sim.done = Len(sim.derivs)
    /\ ~sim.calc_mana_weights
    /\ sim' = [sim EXCEPT !.weights_table = sim.dps_deltas,
                          !.label = "Stat Breakdown"]
    /\ pc' = "returned"
    /\ UNCHANGED <<cfg, player, time, previous_time, ev, steplog, err>>

\* append_mana_weights, lines 1334-1339: the player did not go oom
ManaWeightsZero ==
    /\ pc = "calc_stat_weights"
    /\ sim.done = Len(sim.derivs)
    /\ sim.calc_mana_weights
    /\ sim.time_to_oom = "none"
    /\ sim' = [sim EXCEPT !.weights_table = Append(sim.dps_deltas, "mana stats"),
                          !.label = "Stat Breakdown"]
    /\ pc' = "returned"
    /\ UNCHANGED <<cfg, player, time, previous_time, ev, steplog, err>>

\* append_mana_weights, lines 1340-1343, entering calc_mana_weights
CalcManaWeights ==
    /\ pc = "calc_stat_weights"
    /\ sim.done = Len(sim.derivs)
    /\ sim.calc_mana_weights
    /\ sim.time_to_oom # "none"
    /\ sim' = [sim EXCEPT !.weights_table = sim.dps_deltas,
                          !.derivs = mana_derivs(cfg), !.done = 0,
                          !.dps_deltas = <<>>]
    /\ pc' = "calc_mana_weights"
    /\ UNCHANGED <<cfg, player, time, previous_time, ev, steplog, err>>

\* calc_mana_weights returns ('1 Int' is combined from '1 mana' and
\* '1 Spirit'), append_mana_weights adds its rows, calc_weights returns
ManaWeightsReturn ==
    /\ pc = "calc_mana_weights"
    /\ sim.done = Len(sim.derivs)
    /\ sim' = [sim EXCEPT !.weights_table =
                              @ \o <<"1 mana", "1 Spirit", "1 Int", "1 mp5">>,
                          !.label = "Stat Breakdown"]
    /\ pc' = "returned"
    /\ UNCHANGED <<cfg, player, time, previous_time, ev, steplog, err>>

WeightsNext ==
    \/ CalcWeightsRefuse
    \/ CalcStatWeights
    \/ CalcDerivBegin
    \/ CalcDerivReturn
    \/ CalcDerivRaise
    \/ CalcWeightsReturn
    \/ ManaWeightsZero
    \/ CalcManaWeights
    \/ ManaWeightsReturn

WeightsSpec == WeightsInit /\ [][WeightsNext]_vars

(***************************************************************************)
(* Simulation.__init__ and Simulation.set_active_debuffs.  sim holds the   *)
(* params and strategy dictionaries of the Simulation, the arguments of    *)
(* the last call and the content of the error message it raised.           *)
(***************************************************************************)
default_params ==
    [gift_of_arthas |-> TRUE, boss_armor |-> 3731, sunder |-> FALSE,
     imp_EA |-> TRUE, CoR |-> TRUE, faerie_fire |-> TRUE,
     annihilator |-> FALSE, blood_frenzy |-> FALSE]

default_strategy ==
    [prepop_TF |-> FALSE, prepop_numticks |-> 2, min_combos_for_rip |-> 4,
     use_innervate |-> TRUE]

\* self.params.keys(): the keys in insertion order
params_keys ==
    <<"gift_of_arthas", "boss_armor", "sunder", "imp_EA", "CoR", "faerie_fire",
      "annihilator", "blood_frenzy">>

strategy_keys ==
    <<"prepop_TF", "prepop_numticks", "min_combos_for_rip", "use_innervate">>

\* keyword names a caller passes: recognised ones and misspelt ones
KwargKeys ==
    {"sunder", "boss_armor", "min_combos_for_rip", "use_innervate", "armor",
     "rip_cp"}

\* the value passed for a keyword: one that differs from the default
kwarg_value(key) ==
    IF key = "boss_armor" THEN 6200
    ELSE IF key = "min_combos_for_rip" THEN 5
    ELSE IF key \in DOMAIN default_params THEN ~default_params[key]
    ELSE IF key \in DOMAIN default_strategy THEN ~default_strategy[key]
    ELSE 0

\* **kwargs: sequences of distinct keys of length n or less
RECURSIVE Kwargs(_)
Kwargs(n) ==
    IF n = 0 THEN {<<>>}
    ELSE LET shorter == Kwargs(n - 1)
         IN shorter \cup
            {Append(kw, key) : kw \in {k \in shorter : Len(k) = n - 1},
                               key \in KwargKeys}

distinct_keys(kw) == \A i, j \in DOMAIN kw : kw[i] = kw[j] => i = j

\* names a caller passes to set_active_debuffs
DebuffNames == {"sunder", "CoR", "boss_armor", "bogus"}

RECURSIVE DebuffLists(_)
DebuffLists(n) ==
    IF n = 0 THEN {<<>>}
    ELSE LET shorter == DebuffLists(n - 1)
         IN shorter \cup
            {Append(l, d) : l \in {k \in shorter : Len(k) = n - 1},
                            d \in DebuffNames}

\* lines 772-782 with every unsupported key collected before raising
RECURSIVE apply_kwargs_collecting(_, _, _)
apply_kwargs_collecting(params, strategy, kwargs) ==
    IF kwargs = <<>>
    THEN [params |-> params, strategy |-> strategy, err |-> "none",
          invalid |-> <<>>]
    ELSE LET key == Head(kwargs)
             rest == apply_kwargs_collecting(
                         IF key \in DOMAIN params
                         THEN [params EXCEPT ![key] = kwarg_value(key)]
                         ELSE params,
                         IF key \notin DOMAIN params /\ key \in DOMAIN strategy
                         THEN [strategy EXCEPT ![key] = kwarg_value(key)]
                         ELSE strategy,
                         Tail(kwargs))
         IN IF key \in DOMAIN params \/ key \in DOMAIN strategy THEN rest
            ELSE [rest EXCEPT !.err = "KeyError",
                              !.invalid = <<key>> \o rest.invalid]

\* lines 772-782 with the strategy keys left out of the test
RECURSIVE apply_kwargs_params_only(_, _, _)
apply_kwargs_params_only(params, strategy, kwargs) ==
    IF kwargs = <<>>
    THEN [params |-> params, strategy |-> strategy, err |-> "none",
          invalid |-> <<>>]
    ELSE LET key == Head(kwargs)
         IN IF key \in DOMAIN params
            THEN apply_kwargs_params_only(
                     [params EXCEPT ![key] = kwarg_value(key)], strategy,
                     Tail(kwargs))
            ELSE [params |-> params, strategy |-> strategy,
                  err |-> "KeyError", invalid |-> <<key>>]

\* lines 772-782: the loop over kwargs.items()
RECURSIVE apply_kwargs(_, _, _)
apply_kwargs(params, strategy, kwargs) ==
    IF kwargs = <<>>
    THEN [params |-> params, strategy |-> strategy, err |-> "none",
          invalid |-> <<>>]
    ELSE LET key == Head(kwargs)
         IN IF key \in DOMAIN params
            THEN apply_kwargs([params EXCEPT ![key] = kwarg_value(key)],
                              strategy, Tail(kwargs))
            ELSE IF key \in DOMAIN strategy
            THEN apply_kwargs(params,
                              [strategy EXCEPT ![key] = kwarg_value(key)],
                              Tail(kwargs))
            ELSE [params |-> params, strategy |-> strategy,
                  err |-> "KeyError", invalid |-> <<key>>]

\* list.remove(x): the first occurrence is removed
RECURSIVE remove(_, _)
remove(l, x) ==
    IF l = <<>> THEN <<>>
    ELSE IF Head(l) = x THEN Tail(l)
    ELSE <<Head(l)>> \o remove(Tail(l), x)

InList(l, x) == \E i \in DOMAIN l : l[i] = x

\* line 796: the keys of params other than boss_armor, in order
all_debuffs == SelectSeq(params_keys, LAMBDA key : key # "boss_armor")

\* lines 798-803: the loop over all_debuffs
RECURSIVE set_flags(_, _, _)
set_flags(params, active_debuffs, keys) ==
    IF keys = <<>> THEN [params |-> params, active_debuffs |-> active_debuffs]
    ELSE LET key == Head(keys)
         IN IF InList(active_debuffs, key)
            THEN set_flags([params EXCEPT ![key] = TRUE],
                           remove(active_debuffs, key), Tail(keys))
            ELSE set_flags([params EXCEPT ![key] = FALSE], active_debuffs,
                           Tail(keys))

ConstructInit ==
    /\ cfg = CfgRandom
    /\ player = reset(cfg)
    /\ sim = [params |-> default_params, strategy |-> default_strategy,
              kwargs |-> <<>>, debuff_list |-> <<>>,
              before |-> default_params,
              message |-> [invalid |-> <<>>, valid |-> <<>>]]
    /\ time = 0
    /\ previous_time = 0
    /\ pc = "new"
    /\ ev = NoEvent
    /\ steplog = <<>>
    /\ err = "none"

\* Simulation(player, fight_length, num_mcp, **kwargs)
Construct ==
    /\ pc = "new"
    /\ \E kwargs \in Kwargs(MaxKwargs) :
        /\ distinct_keys(kwargs)
        /\ LET r == apply_kwargs(default_params, default_strategy, kwargs)
           IN /\ sim' = [sim EXCEPT
                    !.params = r.params, !.strategy = r.strategy,
                    !.kwargs = kwargs,
                    !.message = IF r.err = "none" THEN @
                                ELSE [invalid |-> r.invalid,
                                      valid |-> params_keys \o strategy_keys]]
              /\ err' = r.err
              /\ pc' = IF r.err = "none" THEN "constructed" ELSE "raised"
    /\ UNCHANGED <<cfg, player, time, previous_time, ev, steplog>>

\* sim.set_active_debuffs(debuff_list)
SetActiveDebuffs ==
    /\ pc = "constructed"
    /\ \E debuff_list \in DebuffLists(MaxDebuffs) :
        LET r == set_flags(sim.params, debuff_list, all_debuffs)
            raises == r.active_debuffs # <<>>
        IN /\ sim' = [sim EXCEPT
                 !.params = r.params, !.debuff_list = debuff_list,
                 !.before = sim.params,
                 !.message = IF raises
                             THEN [invalid |-> r.active_debuffs,
                                   valid |-> params_keys]
                             ELSE @]
           /\ err' = IF raises THEN "ValueError" ELSE "none"
           /\ pc' = IF raises THEN "raised" ELSE "constructed"
    /\ UNCHANGED <<cfg, player, time, previous_time, ev, steplog>>

ConstructNext ==
    \/ Construct
    \/ SetActiveDebuffs

ConstructSpec == ConstructInit /\ [][ConstructNext]_vars

(***************************************************************************)
(* trinkets.py: one equipped trinket, driven by calls of update at         *)
(* non-decreasing times and by calls of check_for_proc for the attacks     *)
(* that landed.  cfg holds the attributes of the Player, which the trinket *)
(* modifies; sim holds the trinket object, sim.proc_end_times (of which    *)
(* only the distinct times still ahead are kept: trinkets.py writes the    *)
(* list and never reads it) and the value of the stat before the           *)
(* activation.                                                             *)
(***************************************************************************)
\* -np.inf
NegInf == -1000000

\* Brooch of the Immortal King, on use
Brooch ==
    [type |-> "activated", stat_name |-> "attack_power", stat_increment |-> 278,
     proc_duration |-> 20 * MS, cooldown |-> 120 * MS, delay |-> 0,
     chance_on_hit |-> 0, chance_on_crit |-> 0,
     separate_yellow_procs |-> FALSE, white |-> 0, yellow |-> 0]

\* an on-use trinket in the second slot, delayed by the shared cooldown
BroochDelayed == [Brooch EXCEPT !.delay = 20 * MS]

\* Hourglass of the Unraveller, 10% chance on crit
Hourglass ==
    [Brooch EXCEPT !.type = "proc", !.stat_increment = 300,
                   !.proc_duration = 10 * MS, !.cooldown = 50 * MS,
                   !.chance_on_crit = 100]

\* Madness of the Betrayer, 1 proc per minute, refreshing
Madness ==
    [Brooch EXCEPT !.type = "refreshing_proc", !.stat_name = "armor_pen",
                   !.stat_increment = 300, !.proc_duration = 10 * MS,
                   !.cooldown = 0, !.separate_yellow_procs = TRUE,
                   !.white = 17, !.yellow = 50]

\* Badge of the Swarmguard, 10 procs per minute while active
Badge ==
    [Brooch EXCEPT !.type = "badge", !.stat_name = "armor_pen",
                   !.stat_increment = 0, !.proc_duration = 30 * MS,
                   !.cooldown = 180 * MS, !.separate_yellow_procs = TRUE,
                   !.white = 167, !.yellow = 500]

TrinketConfigs == {Brooch, BroochDelayed, Hourglass, Madness, Badge}

\* time between two calls of update, in seconds
UpdateSteps == {0, 5, 15}

\* ActivatedTrinket.reset taking the branch of delay = 0 whatever the delay
trinket_reset_no_delay(tr) ==
    [k \in DOMAIN tr \cup {"activation_time", "deactivation_time", "active",
                            "can_proc", "proc_happened", "num_stacks"} |->
       IF k \in {"activation_time", "deactivation_time"} THEN NegInf
       ELSE IF k \in {"active", "proc_happened"} THEN FALSE
       ELSE IF k = "can_proc" THEN tr.type # "badge"
       ELSE IF k = "num_stacks" THEN 0
       ELSE IF k = "stat_increment" /\ tr.type = "badge" THEN 0
       ELSE tr[k]]

\* reset of Trinket, ActivatedTrinket, ProcTrinket and BadgeOfTheSwarmguard
trinket_reset(tr) ==
    LET delayed == tr.type = "activated" /\ tr.delay # 0
    IN [k \in DOMAIN tr \cup {"activation_time", "deactivation_time", "active",
                               "can_proc", "proc_happened", "num_stacks"} |->
          IF k = "activation_time"
          THEN (IF delayed THEN tr.delay - tr.cooldown ELSE NegInf)
          ELSE IF k = "deactivation_time"
          THEN (IF "deactivation_time" \in DOMAIN tr THEN tr.deactivation_time
                ELSE NegInf)
          ELSE IF k = "active" THEN FALSE
          ELSE IF k = "can_proc"
          THEN (IF tr.type = "badge" THEN FALSE ELSE ~delayed)
          ELSE IF k = "proc_happened" THEN FALSE
          ELSE IF k = "num_stacks" THEN 0
          ELSE IF k = "stat_increment" /\ tr.type = "badge" THEN 0
          ELSE tr[k]]

\* Trinket.modify_stat for an attribute of the Player
modify_stat(c, stat_name, increment) ==
    [c EXCEPT ![stat_name] = @ + increment]

\* list.append followed by list.sort
RECURSIVE sorted_insert(_, _)
sorted_insert(l, x) ==
    IF l = <<>> THEN <<x>>
    ELSE IF x <= Head(l) THEN <<x>> \o l
    ELSE <<Head(l)>> \o sorted_insert(Tail(l), x)

\* the times of a sorted list that are still ahead of t, each kept once
RECURSIVE ahead(_, _)
ahead(l, t) ==
    IF l = <<>> THEN <<>>
    ELSE IF Head(l) <= t \/ (Len(l) > 1 /\ l[2] = Head(l)) THEN ahead(Tail(l), t)
    ELSE <<Head(l)>> \o ahead(Tail(l), t)

\* Trinket.activate; st is [tr, c, ends]: trinket, Player, sim.proc_end_times
Trinket_activate(st, t) ==
    [tr |-> [st.tr EXCEPT !.activation_time = t,
                          !.deactivation_time = t + st.tr.proc_duration,
                          !.active = TRUE, !.can_proc = FALSE],
     c |-> modify_stat(st.c, st.tr.stat_name, st.tr.stat_increment),
     ends |-> sorted_insert(st.ends, t + st.tr.proc_duration)]

\* Trinket.deactivate
Trinket_deactivate(st) ==
    [st EXCEPT !.tr.active = FALSE,
               !.c = modify_stat(st.c, st.tr.stat_name, -st.tr.stat_increment)]

\* BadgeOfTheSwarmguard._reset
Badge_reset(tr) ==
    [tr EXCEPT !.active = FALSE, !.can_proc = FALSE, !.proc_happened = FALSE,
               !.num_stacks = 0]

\* BadgeOfTheSwarmguard.deactivate
Badge_deactivate(st) ==
    LET total == [st EXCEPT !.tr.stat_increment = 200 * st.tr.num_stacks]
        off == Trinket_deactivate([total EXCEPT !.tr = Badge_reset(total.tr)])
    IN [off EXCEPT !.tr.stat_increment = 0]

deactivate(st) ==
    IF st.tr.type = "badge" THEN Badge_deactivate(st) ELSE Trinket_deactivate(st)

\* ProcTrinket.apply_proc: [applied, tr]
ProcTrinket_apply_proc(tr) ==
    IF tr.can_proc /\ tr.proc_happened
    THEN [applied |-> TRUE, tr |-> [tr EXCEPT !.proc_happened = FALSE]]
    ELSE [applied |-> FALSE, tr |-> tr]

\* the test for six stacks is left out
Badge_apply_proc_unbounded(tr) ==
    IF ~tr.active /\ tr.can_proc /\ tr.stat_increment = 0
    THEN [applied |-> TRUE, tr |-> tr]
    ELSE ProcTrinket_apply_proc(tr)

\* BadgeOfTheSwarmguard.apply_proc
Badge_apply_proc(tr) ==
    IF ~tr.active /\ tr.can_proc /\ tr.stat_increment = 0
    THEN [applied |-> TRUE, tr |-> tr]
    ELSE IF tr.num_stacks = 6
    THEN [applied |-> FALSE, tr |-> [tr EXCEPT !.can_proc = FALSE]]
    ELSE ProcTrinket_apply_proc(tr)

\* apply_proc of ActivatedTrinket, ProcTrinket and BadgeOfTheSwarmguard
apply_proc(tr) ==
    IF tr.type = "activated" THEN [applied |-> tr.can_proc, tr |-> tr]
    ELSE IF tr.type = "badge" THEN Badge_apply_proc(tr)
    ELSE ProcTrinket_apply_proc(tr)

\* BadgeOfTheSwarmguard.activate
Badge_activate(st, t) ==
    IF ~st.tr.active
    THEN [Trinket_activate(st, t) EXCEPT !.tr.can_proc = TRUE,
                                         !.tr.stat_increment = 200]
    ELSE [st EXCEPT !.c = modify_stat(st.c, st.tr.stat_name,
                                      st.tr.stat_increment),
                    !.tr.num_stacks = @ + 1]

\* the buff in place is not taken off before the new one is put on
Refreshing_activate_stacking(st, t) ==
    Trinket_activate(st, t)

\* RefreshingProcTrinket.activate
Refreshing_activate(st, t) ==
    Trinket_activate(IF st.tr.active THEN Trinket_deactivate(st) ELSE st, t)

activate(st, t) ==
    IF st.tr.type = "badge" THEN Badge_activate(st, t)
    ELSE IF st.tr.type = "refreshing_proc" THEN Refreshing_activate(st, t)
    ELSE Trinket_activate(st, t)

\* the buff is taken off only after the deactivation time has passed
Trinket_update_late(st, t) ==
    LET s1 == IF st.tr.active /\ t > st.tr.deactivation_time
              THEN deactivate(st) ELSE st
        s2 == IF ~s1.tr.can_proc /\ t - s1.tr.activation_time >= s1.tr.cooldown
              THEN [s1 EXCEPT !.tr.can_proc = TRUE] ELSE s1
        ap == apply_proc(s2.tr)
        s3 == [s2 EXCEPT !.tr = ap.tr]
    IN IF ap.applied THEN activate(s3, t) ELSE s3

\* the trinket is made ready without looking at the cooldown
Trinket_update_no_cooldown(st, t) ==
    LET s1 == IF st.tr.active /\ t >= st.tr.deactivation_time
              THEN deactivate(st) ELSE st
        s2 == IF ~s1.tr.can_proc /\ ~s1.tr.active
              THEN [s1 EXCEPT !.tr.can_proc = TRUE] ELSE s1
        ap == apply_proc(s2.tr)
        s3 == [s2 EXCEPT !.tr = ap.tr]
    IN IF ap.applied THEN activate(s3, t) ELSE s3

\* Trinket.update with allow_activation = True; the comparisons with a
\* tolerance of 1e-9 are comparisons with >=
Trinket_update(st, t) ==
    LET s1 == IF st.tr.active /\ t >= st.tr.deactivation_time
              THEN deactivate(st) ELSE st
        s2 == IF ~s1.tr.can_proc /\ t - s1.tr.activation_time >= s1.tr.cooldown
              THEN [s1 EXCEPT !.tr.can_proc = TRUE] ELSE s1
        ap == apply_proc(s2.tr)
        s3 == [s2 EXCEPT !.tr = ap.tr]
    IN IF ap.applied THEN activate(s3, t) ELSE s3

\* ProcTrinket.check_for_proc
check_for_proc(tr, crit, yellow, proc_roll) ==
    IF ~tr.can_proc THEN [tr EXCEPT !.proc_happened = FALSE]
    ELSE LET rate == IF tr.separate_yellow_procs
                     THEN (IF yellow THEN tr.yellow ELSE tr.white)
                     ELSE (IF crit THEN tr.chance_on_crit ELSE tr.chance_on_hit)
         IN [tr EXCEPT !.proc_happened = proc_roll < rate]

TrinketInit ==
    /\ cfg = CfgRandom
    /\ player = reset(cfg)
    /\ \E tr \in TrinketConfigs :
          sim = [trinket |-> trinket_reset(tr), proc_end_times |-> <<>>,
                 before |-> cfg[tr.stat_name]]
    /\ time = 0
    /\ previous_time = 0
    /\ pc = "trinket"
    /\ ev = NoEvent
    /\ steplog = <<>>
    /\ err = "none"

\* trinket.update(time, player, sim) at the next step of the trial
TrinketUpdate ==
    /\ pc = "trinket"
    /\ \E dt \in UpdateSteps :
        /\ time + dt * MS <= TrinketHorizon * MS
        /\ time' = time + dt * MS
        /\ LET st == Trinket_update([tr |-> sim.trinket, c |-> cfg,
                                     ends |-> sim.proc_end_times], time')
           IN /\ cfg' = st.c
              /\ sim' = [sim EXCEPT
                    !.trinket = st.tr,
                    !.proc_end_times = ahead(st.ends, time'),
                    !.before = IF ~sim.trinket.active /\ st.tr.active
                               THEN cfg[st.tr.stat_name] ELSE @]
    /\ previous_time' = time
    /\ ev' = Cast("update", FALSE, FALSE, FALSE)
    /\ UNCHANGED <<player, pc, steplog, err>>

\* an attack has landed: trinket.check_for_proc(crit, yellow)
TrinketAttack ==
    /\ pc = "trinket"
    /\ sim.trinket.type # "activated"
    /\ \E crit \in BOOLEAN, yellow \in BOOLEAN, proc_roll \in Rolls :
        /\ sim' = [sim EXCEPT !.trinket = check_for_proc(@, crit, yellow, proc_roll)]
        /\ ev' = Cast("attack", FALSE, FALSE, FALSE)
    /\ UNCHANGED <<cfg, player, time, previous_time, pc, steplog, err>>

TrinketNext ==
    \/ TrinketUpdate
    \/ TrinketAttack

TrinketSpec == TrinketInit /\ [][TrinketNext]_vars

(***************************************************************************)
(* A ProcTrinket built with a proc chance of 1 and no internal cooldown,   *)
(* under the same calls of update and check_for_proc.                      *)
(***************************************************************************)
\* ProcTrinket(chance_on_hit = 1.0, chance_on_crit = 1.0, cooldown = 0)
SureProc ==
    [Hourglass EXCEPT !.cooldown = 0, !.chance_on_hit = 1000,
                      !.chance_on_crit = 1000]

ProcConfigs == {SureProc}

ProcInit ==
    /\ cfg = CfgRandom
    /\ player = reset(cfg)
    /\ \E tr \in ProcConfigs :
          sim = [trinket |-> trinket_reset(tr), proc_end_times |-> <<>>,
                 before |-> cfg[tr.stat_name]]
    /\ time = 0
    /\ previous_time = 0
    /\ pc = "trinket"
    /\ ev = NoEvent
    /\ steplog = <<>>
    /\ err = "none"

\* the stat has been raised fewer than MaxProcs times over its base value
ProcBounded ==
    cfg[sim.trinket.stat_name]
        < CfgRandom[sim.trinket.stat_name] + MaxProcs * sim.trinket.stat_increment

ProcNext ==
    \/ ProcBounded /\ TrinketUpdate
    \/ ProcBounded /\ TrinketAttack

ProcSpec == ProcInit /\ [][ProcNext]_vars

(***************************************************************************)
(* process_trinkets of main.py: the two trinket slots are turned into      *)
(* Trinket objects, an on-use trinket in the second slot being delayed by  *)
(* the shared cooldown, and the trinkets are then updated together.  sim   *)
(* holds the two slots, cd_delay, all_trinkets and sim.proc_end_times.     *)
(* ap_mod and stat_mod are 1.                                              *)
(***************************************************************************)
\* Crystalforged Trinket, on use
Crystalforged ==
    [Brooch EXCEPT !.stat_increment = 216, !.proc_duration = 10 * MS,
                   !.cooldown = 60 * MS]

\* the class trinket: 64 Strength, that is 128 attack power, 3% on hit
ClassTrinket ==
    [Brooch EXCEPT !.type = "refreshing_proc", !.stat_increment = 2 * 64,
                   !.proc_duration = 15 * MS, !.cooldown = 0,
                   !.chance_on_hit = 30, !.chance_on_crit = 30]

\* the entries of trinket_library that the slots are filled from
trinket_library ==
    [brooch |-> [type |-> "activated", passive_stat |-> "attack_power",
                 passive_increment |-> 72, active_stats |-> Brooch],
     crystalforged |-> [type |-> "activated", passive_stat |-> "bonus_damage",
                        passive_increment |-> 7, active_stats |-> Crystalforged],
     class_trinket |-> [type |-> "refreshing_proc", passive_stat |-> "attack_power",
                        passive_increment |-> 0, active_stats |-> ClassTrinket],
     motc |-> [type |-> "passive", passive_stat |-> "attack_power",
               passive_increment |-> 150, active_stats |-> Brooch]]

SlotValues == {"none"} \cup DOMAIN trinket_library

\* the modelled input delay, in ms
CdDelays == {0, 15 * MS}

\* the activation delay of an on-use trinket is cd_delay in either slot
trinket_slot_no_shared_cooldown(acc, trinket, cd_delay) ==
    IF trinket = "none" THEN acc
    ELSE LET trinket_params == trinket_library[trinket]
             with_passive ==
                 [acc EXCEPT !.c = modify_stat(@, trinket_params.passive_stat,
                                               trinket_params.passive_increment)]
         IN IF trinket_params.type = "passive" THEN with_passive
            ELSE IF trinket_params.type = "activated"
            THEN [with_passive EXCEPT
                    !.all_trinkets =
                        Append(@, [trinket_params.active_stats
                                     EXCEPT !.delay = cd_delay])]
            ELSE [with_passive EXCEPT
                    !.all_trinkets = Append(@, trinket_params.active_stats),
                    !.proc_trinkets = Append(@, trinket_params.active_stats)]

\* one turn of the loop of process_trinkets; acc is [c, all_trinkets,
\* proc_trinkets]
trinket_slot(acc, trinket, cd_delay) ==
    IF trinket = "none" THEN acc
    ELSE LET trinket_params == trinket_library[trinket]
             with_passive ==
                 [acc EXCEPT !.c = modify_stat(@, trinket_params.passive_stat,
                                               trinket_params.passive_increment)]
             delay ==
                 IF acc.all_trinkets # <<>> /\ acc.proc_trinkets = <<>>
                 THEN cd_delay
                      + acc.all_trinkets[Len(acc.all_trinkets)].proc_duration
                 ELSE cd_delay
         IN IF trinket_params.type = "passive" THEN with_passive
            ELSE IF trinket_params.type = "activated"
            THEN [with_passive EXCEPT
                    !.all_trinkets =
                        Append(@, [trinket_params.active_stats
                                     EXCEPT !.delay = delay])]
            ELSE [with_passive EXCEPT
                    !.all_trinkets = Append(@, trinket_params.active_stats),
                    !.proc_trinkets = Append(@, trinket_params.active_stats)]

process_trinkets(trinket_1, trinket_2, c, cd_delay) ==
    trinket_slot(
        trinket_slot([c |-> c, all_trinkets |-> <<>>, proc_trinkets |-> <<>>],
                     trinket_1, cd_delay),
        trinket_2, cd_delay)

\* the constructors end with reset()
RECURSIVE reset_all(_)
reset_all(trinkets) ==
    IF trinkets = <<>> THEN <<>>
    ELSE <<trinket_reset(Head(trinkets))>> \o reset_all(Tail(trinkets))

\* trinket.update(time, player, sim) for every trinket of the list, in order
RECURSIVE update_all(_, _, _, _)
update_all(trinkets, c, ends, t) ==
    IF trinkets = <<>> THEN [trinkets |-> <<>>, c |-> c, ends |-> ends]
    ELSE LET st == Trinket_update([tr |-> Head(trinkets), c |-> c,
                                   ends |-> ends], t)
             rest == update_all(Tail(trinkets), st.c, st.ends, t)
         IN [rest EXCEPT !.trinkets = <<st.tr>> \o @]

SlotsInit ==
    /\ cfg = CfgRandom
    /\ player = reset(cfg)
    /\ \E trinket_1 \in SlotValues, trinket_2 \in SlotValues,
          cd_delay \in CdDelays :
          sim = [trinket_1 |-> trinket_1, trinket_2 |-> trinket_2,
                 cd_delay |-> cd_delay, all_trinkets |-> <<>>,
                 proc_end_times |-> <<>>]
    /\ time = 0
    /\ previous_time = 0
    /\ pc = "process_trinkets"
    /\ ev = NoEvent
    /\ steplog = <<>>
    /\ err = "none"

ProcessTrinkets ==
    /\ pc = "process_trinkets"
    /\ LET done == process_trinkets(sim.trinket_1, sim.trinket_2, cfg,
                                    sim.cd_delay)
       IN /\ cfg' = done.c
          /\ sim' = [sim EXCEPT !.all_trinkets = reset_all(done.all_trinkets)]
    /\ pc' = "fight"
    /\ UNCHANGED <<player, time, previous_time, ev, steplog, err>>

\* the trinkets are updated at the next step of the trial
SlotsUpdate ==
    /\ pc = "fight"
    /\ \E dt \in UpdateSteps :
        /\ time + dt * MS <= TrinketHorizon * MS
        /\ time' = time + dt * MS
        /\ LET st == update_all(sim.all_trinkets, cfg, sim.proc_end_times, time')
           IN /\ cfg' = st.c
              /\ sim' = [sim EXCEPT !.all_trinkets = st.trinkets,
                                    !.proc_end_times = ahead(st.ends, time')]
    /\ previous_time' = time
    /\ ev' = Cast("update", FALSE, FALSE, FALSE)
    /\ UNCHANGED <<player, pc, steplog, err>>

SlotsNext ==
    \/ ProcessTrinkets
    \/ SlotsUpdate

SlotsSpec == SlotsInit /\ [][SlotsNext]_vars

(***************************************************************************)
(* Player.calc_damage_params under the boss debuffs of the Simulation.     *)
(* Damage is in tenths of a point; the armor multiplier is in 1e-4, the    *)
(* damage multiplier in permille and their product in 1e-5.  sim holds the *)
(* encounter parameters, the damage parameters computed from them, those   *)
(* computed before the last change and those without any armor debuff.    *)
(***************************************************************************)
\* defaults of Player.__init__ for the attributes a configuration leaves out
PlayerDefaults ==
    [shred_bonus |-> 0, multiplier |-> 1100, feral_aggression |-> 0,
     savage_fury |-> 2]

attr(c, name) == IF name \in DOMAIN c THEN c[name] ELSE PlayerDefaults[name]

flag(b) == IF b THEN 1 ELSE 0

\* Curse of Recklessness puts armor on the boss
calc_damage_params_armor_added(c, params, tigers_fury) ==
    LET bonus_damage == (c.attack_power * 10) \div 14
                        + 80 * flag(params.gift_of_arthas)
                        + 10 * c.bonus_damage + 400 * flag(tigers_fury)
        residual_armor ==
            Max(0, params.boss_armor
                     - Max(flag(params.sunder) * 2600, flag(params.imp_EA) * 3075)
                     + 800 * flag(params.CoR) - 610 * flag(params.faerie_fire)
                     - 600 * flag(params.annihilator) - c.armor_pen)
        armor_multiplier ==
            10000 - (2 * residual_armor * 10000) \div (2 * residual_armor + 21115)
        damage_multiplier ==
            (attr(c, "multiplier") * (100 + 4 * flag(params.blood_frenzy))) \div 100
        multiplier == (armor_multiplier * damage_multiplier) \div 100
        scaled(x) == (x * multiplier) \div 100000
        white_low == scaled(435 + bonus_damage)
        white_high == scaled(665 + bonus_damage)
        bite_multiplier == (multiplier * (100 + 3 * attr(c, "feral_aggression"))) \div 100
        bite_scaled(x) == (x * bite_multiplier) \div 100000
        mangle_fac == 10 + attr(c, "savage_fury")
    IN [residual_armor |-> residual_armor,
        multiplier |-> multiplier,
        white_low |-> white_low,
        white_high |-> white_high,
        shred_low |-> (white_low * 225) \div 100
                      + scaled(4050 + 10 * attr(c, "shred_bonus")),
        shred_high |-> (white_high * 225) \div 100
                       + scaled(4050 + 10 * attr(c, "shred_bonus")),
        bite_low |-> [cp \in {4, 5} |->
            IF cp = 5 THEN bite_scaled(9350 + (25 * c.attack_power) \div 10)
            ELSE bite_scaled(7660 + 2 * c.attack_power)],
        bite_high |-> [cp \in {4, 5} |->
            IF cp = 5 THEN bite_scaled(9680 + (25 * c.attack_power) \div 10)
            ELSE bite_scaled(7990 + 2 * c.attack_power)],
        claw_low |-> (mangle_fac * (white_low + scaled(1900))) \div 10,
        claw_high |-> (mangle_fac * (white_high + scaled(1900))) \div 10,
        mangle_low |-> (mangle_fac * ((white_low * 16) \div 10 + scaled(2640))) \div 10,
        mangle_high |-> (mangle_fac * ((white_high * 16) \div 10 + scaled(2640))) \div 10,
        rip_tick |-> [cp \in {4, 5} |->
            (((IF cp = 5 THEN 1092 ELSE 894) * 100 + 24 * c.attack_power)
               * damage_multiplier) \div 60000]]

calc_damage_params(c, params, tigers_fury) ==
    LET bonus_damage == (c.attack_power * 10) \div 14
                        + 80 * flag(params.gift_of_arthas)
                        + 10 * c.bonus_damage + 400 * flag(tigers_fury)
        residual_armor ==
            Max(0, params.boss_armor
                     - Max(flag(params.sunder) * 2600, flag(params.imp_EA) * 3075)
                     - 800 * flag(params.CoR) - 610 * flag(params.faerie_fire)
                     - 600 * flag(params.annihilator) - c.armor_pen)
        armor_multiplier ==
            10000 - (2 * residual_armor * 10000) \div (2 * residual_armor + 21115)
        damage_multiplier ==
            (attr(c, "multiplier") * (100 + 4 * flag(params.blood_frenzy))) \div 100
        multiplier == (armor_multiplier * damage_multiplier) \div 100
        scaled(x) == (x * multiplier) \div 100000
        white_low == scaled(435 + bonus_damage)
        white_high == scaled(665 + bonus_damage)
        bite_multiplier == (multiplier * (100 + 3 * attr(c, "feral_aggression"))) \div 100
        bite_scaled(x) == (x * bite_multiplier) \div 100000
        mangle_fac == 10 + attr(c, "savage_fury")
    IN [residual_armor |-> residual_armor,
        multiplier |-> multiplier,
        white_low |-> white_low,
        white_high |-> white_high,
        shred_low |-> (white_low * 225) \div 100
                      + scaled(4050 + 10 * attr(c, "shred_bonus")),
        shred_high |-> (white_high * 225) \div 100
                       + scaled(4050 + 10 * attr(c, "shred_bonus")),
        bite_low |-> [cp \in {4, 5} |->
            IF cp = 5 THEN bite_scaled(9350 + (25 * c.attack_power) \div 10)
            ELSE bite_scaled(7660 + 2 * c.attack_power)],
        bite_high |-> [cp \in {4, 5} |->
            IF cp = 5 THEN bite_scaled(9680 + (25 * c.attack_power) \div 10)
            ELSE bite_scaled(7990 + 2 * c.attack_power)],
        claw_low |-> (mangle_fac * (white_low + scaled(1900))) \div 10,
        claw_high |-> (mangle_fac * (white_high + scaled(1900))) \div 10,
        mangle_low |-> (mangle_fac * ((white_low * 16) \div 10 + scaled(2640))) \div 10,
        mangle_high |-> (mangle_fac * ((white_high * 16) \div 10 + scaled(2640))) \div 10,
        rip_tick |-> [cp \in {4, 5} |->
            (((IF cp = 5 THEN 1092 ELSE 894) * 100 + 24 * c.attack_power)
               * damage_multiplier) \div 60000]]

\* the debuffs that take armor off the boss
armor_debuffs == {"sunder", "imp_EA", "CoR", "faerie_fire", "annihilator"}

\* boss armor values offered by the front end
BossArmors == {3731, 6193, 7685}

\* armor penetration of the Player: none, from gear, more than any boss armor
ArmorPens == {0, 650, 8000}

no_armor_debuffs(params) ==
    [k \in DOMAIN params |->
        IF k \in armor_debuffs THEN FALSE ELSE params[k]]

ParamsInit ==
    /\ \E armor_pen \in ArmorPens : cfg = [CfgRandom EXCEPT !.armor_pen = armor_pen]
    /\ player = reset(cfg)
    /\ \E boss_armor \in BossArmors, gift_of_arthas \in BOOLEAN,
          blood_frenzy \in BOOLEAN, tigers_fury \in BOOLEAN :
          LET params == [no_armor_debuffs(default_params) EXCEPT
                            !.boss_armor = boss_armor,
                            !.gift_of_arthas = gift_of_arthas,
                            !.blood_frenzy = blood_frenzy]
              derived == calc_damage_params(cfg, params, tigers_fury)
          IN sim = [params |-> params, tigers_fury |-> tigers_fury,
                    derived |-> derived,
                    before |-> derived, baseline |-> derived]
    /\ time = 0
    /\ previous_time = 0
    /\ pc = "params"
    /\ ev = NoEvent
    /\ steplog = <<>>
    /\ err = "none"

\* sim.set_active_debuffs with one more armor debuff in the list, followed
\* by player.calc_damage_params(**sim.params)
EnableDebuff ==
    /\ pc = "params"
    /\ \E debuff \in armor_debuffs :
        /\ ~sim.params[debuff]
        /\ LET params == [sim.params EXCEPT ![debuff] = TRUE]
           IN sim' = [sim EXCEPT
                 !.params = params,
                 !.derived = calc_damage_params(cfg, params, sim.tigers_fury),
                 !.before = sim.derived]
    /\ UNCHANGED <<cfg, player, time, previous_time, pc, ev, steplog, err>>

ParamsNext ==
    EnableDebuff

ParamsSpec == ParamsInit /\ [][ParamsNext]_vars

(***************************************************************************)
(* Damage bookkeeping of Simulation.run: the damage of every timestep is   *)
(* appended to the list that run returns, while Player.swing,              *)
(* Player.execute_builder and Player.rip add to dmg_breakdown.  Which      *)
(* events fall into a timestep is left open: a Rip tick while Rip is on    *)
(* the target, a swing, and one cast of the rotation.  player holds        *)
(* dmg_breakdown; sim holds the list damage, the local rip_damage of run,  *)
(* the two debuffs, self.rip_damage (per_tick) and the ticks left.         *)
(***************************************************************************)
\* calc_white_damage, damage part, in tenths
white_damage_done(low_end, high_end, miss_chance, crit_chance, outcome_roll, damage_roll, glance_roll) ==
    LET base_dmg == low_end + (damage_roll * (high_end - low_end)) \div 1000
    IN IF outcome_roll < miss_chance THEN 0
       ELSE IF outcome_roll < miss_chance + 240
       THEN ((850 - glance_roll \div 5) * base_dmg) \div 1000
       ELSE IF outcome_roll < miss_chance + 240 + crit_chance
       THEN (22 * base_dmg) \div 10
       ELSE base_dmg

\* calc_yellow_damage, damage part, in tenths
yellow_damage_done(low_end, high_end, miss_chance, crit_chance, miss_roll, crit_roll, damage_roll) ==
    LET base_dmg == low_end + (damage_roll * (high_end - low_end)) \div 1000
    IN IF miss_roll < miss_chance THEN 0
       ELSE IF crit_roll < crit_chance THEN (22 * base_dmg) \div 10
       ELSE base_dmg

cast_types ==
    {"Melee", "Mangle", "Shred", "Rip", "Claw", "Ferocious Bite", "Shift"}

\* dmg_breakdown as Player.reset creates it
empty_breakdown == [cast_type \in cast_types |-> [casts |-> 0, damage |-> 0]]

\* self.dmg_breakdown[ability]['casts'] += 1; ...['damage'] += damage_done
log_cast(dmg_breakdown, ability, damage_done) ==
    [dmg_breakdown EXCEPT ![ability] =
        [casts |-> @.casts + 1, damage |-> @.damage + damage_done]]

\* the damage values params of the configuration under the default debuffs
damage_params == calc_damage_params(cfg, default_params, FALSE)

\* the damage a swing can do
SwingDamages ==
    {white_damage_done(damage_params.white_low, damage_params.white_high,
                       cfg.miss_chance, cfg.crit_chance, outcome_roll,
                       damage_roll, glance_roll) :
        outcome_roll \in Rolls, damage_roll \in Rolls, glance_roll \in Rolls}

\* execute_builder: the damage of a builder and whether it landed
BuilderResults(low_end, high_end, mangle_mod) ==
    {[damage_done |->
         LET damage_done ==
                 yellow_damage_done(low_end, high_end, cfg.miss_chance,
                                    cfg.crit_chance, miss_roll, crit_roll,
                                    damage_roll)
         IN IF mangle_mod THEN (damage_done * 13) \div 10 ELSE damage_done,
      success |-> ~(miss_roll < cfg.miss_chance)] :
        miss_roll \in Rolls, crit_roll \in Rolls, damage_roll \in Rolls}

\* Player.rip: the damage per tick and whether the Rip landed
RipResults ==
    {[damage_done |-> IF miss_roll < cfg.miss_chance THEN 0
                      ELSE damage_params.rip_tick[combo_points],
      success |-> ~(miss_roll < cfg.miss_chance)] :
        miss_roll \in Rolls, combo_points \in {4, 5}}

\* what execute_rotation can do in a timestep
RotationCasts ==
    {[name |-> "none", damage_done |-> 0, success |-> FALSE],
     [name |-> "Shift", damage_done |-> 0, success |-> TRUE]}
    \cup {[name |-> "Rip", damage_done |-> r.damage_done, success |-> r.success] :
            r \in RipResults}
    \cup {[name |-> "Mangle", damage_done |-> r.damage_done, success |-> r.success] :
            r \in BuilderResults(damage_params.mangle_low,
                                 damage_params.mangle_high, FALSE)}
    \cup {[name |-> "Shred", damage_done |-> r.damage_done, success |-> r.success] :
            r \in BuilderResults(damage_params.shred_low,
                                 damage_params.shred_high, TRUE)}

\* the breakdown is returned with the Rip damage that Player.rip logged
returned_breakdown_as_logged(dmg_breakdown, rip_damage) ==
    dmg_breakdown

\* line 1242: the logged Rip damage is replaced by the damage of the ticks
returned_breakdown(dmg_breakdown, rip_damage) ==
    [dmg_breakdown EXCEPT !.Rip.damage = rip_damage]

TallyConfigs == {CfgRandom, CfgLong}

\* a Simulation whose Player still holds the breakdown of an earlier trial
TallyInit ==
    /\ cfg \in TallyConfigs
    /\ \E leftover \in SwingDamages :
          player = [dmg_breakdown |-> log_cast(empty_breakdown, "Melee", leftover)]
    /\ sim = [damage |-> <<>>, rip_damage |-> 0, rip_debuff |-> FALSE,
              mangle_debuff |-> FALSE, per_tick |-> 0, ticks_left |-> 0]
    /\ time = 0
    /\ previous_time = 0
    /\ pc = "constructed"
    /\ ev = NoEvent
    /\ steplog = <<>>
    /\ err = "none"

\* lines 993-1063: the trial starts
TallyBegin ==
    /\ pc = "constructed"
    /\ player' = [dmg_breakdown |-> empty_breakdown]
    /\ sim' = [sim EXCEPT !.damage = <<>>, !.rip_damage = 0,
                          !.rip_debuff = FALSE, !.mangle_debuff = FALSE]
    /\ pc' = "tally"
    /\ UNCHANGED <<cfg, time, previous_time, ev, steplog, err>>

\* one turn of the loop of run, lines 1069-1213
TallyStep ==
    /\ pc = "tally"
    /\ Len(sim.damage) < TallySteps
    /\ \E mangle_off \in BOOLEAN,
          tick \in (IF sim.rip_debuff /\ sim.ticks_left > 0 THEN BOOLEAN
                    ELSE {FALSE}),
          swing_now \in BOOLEAN, cast \in RotationCasts :
        \E swing_damage \in (IF swing_now THEN SwingDamages ELSE {0}) :
          LET mangle_debuff == sim.mangle_debuff /\ ~mangle_off
              tick_damage ==
                  IF tick
                  THEN (sim.per_tick * (IF mangle_debuff THEN 13 ELSE 10)) \div 10
                  ELSE 0
              ticks_left == IF tick THEN sim.ticks_left - 1 ELSE sim.ticks_left
              rip_debuff == sim.rip_debuff /\ ticks_left > 0
              b1 == IF swing_now
                    THEN log_cast(player.dmg_breakdown, "Melee", swing_damage)
                    ELSE player.dmg_breakdown
              b2 == IF cast.name = "none" THEN b1
                    ELSE IF cast.name = "Rip"
                    THEN log_cast(b1, "Rip", cast.damage_done * 6)
                    ELSE log_cast(b1, cast.name, cast.damage_done)
              returned == IF cast.name \in {"Mangle", "Shred"}
                          THEN cast.damage_done ELSE 0
              dmg_done == tick_damage + swing_damage + returned
              landed_rip == cast.name = "Rip" /\ cast.success
          IN /\ (cast.name = "Rip") => ~rip_debuff
             /\ player' = [dmg_breakdown |-> b2]
             /\ sim' = [damage |-> Append(sim.damage, dmg_done),
                        rip_damage |-> sim.rip_damage + tick_damage,
                        rip_debuff |-> rip_debuff \/ landed_rip,
                        mangle_debuff |->
                            mangle_debuff
                            \/ (cast.name = "Mangle" /\ cast.success),
                        per_tick |-> IF landed_rip THEN cast.damage_done
                                     ELSE sim.per_tick,
                        ticks_left |-> IF landed_rip THEN 6 ELSE ticks_left]
             /\ ev' = Cast(cast.name, ~cast.success, FALSE, FALSE)
    /\ time' = time + 1 * MS
    /\ previous_time' = time
    /\ UNCHANGED <<cfg, pc, steplog, err>>

\* lines 1241-1248: the loop has ended and run returns
TallyReturn ==
    /\ pc = "tally"
    /\ sim.damage # <<>>
    /\ player' = [dmg_breakdown |->
                     returned_breakdown(player.dmg_breakdown, sim.rip_damage)]
    /\ pc' = "returned"
    /\ UNCHANGED <<cfg, sim, time, previous_time, ev, steplog, err>>

TallyNext ==
    \/ TallyBegin
    \/ TallyStep
    \/ TallyReturn

TallySpec == TallyInit /\ [][TallyNext]_vars

(***************************************************************************)
(* Consecutive trials on one Simulation and Player, as run_replicates      *)
(* makes them (lines 1287-1288).  Player.reset and the initialisation of   *)
(* run assign the attributes they name; every other attribute keeps the    *)
(* value the earlier trial left in it.                                     *)
(***************************************************************************)
\* Player.reset leaving the combo points of the earlier trial as well
reset_again_keeps_combo_points(p, c) ==
    [reset(c) EXCEPT !.pot_ticks = p.pot_ticks, !.pot_end = p.pot_end,
                     !.innervate_end = p.innervate_end,
                     !.last_cast_time = p.last_cast_time,
                     !.combo_points = p.combo_points]

\* Player.reset on a Player that has been through a trial: pot_ticks,
\* pot_end, innervate_end and last_cast_time are not assigned
reset_again(p, c) ==
    [reset(c) EXCEPT !.pot_ticks = p.pot_ticks, !.pot_end = p.pot_end,
                     !.innervate_end = p.innervate_end,
                     !.last_cast_time = p.last_cast_time]

\* the trial configurations, with the replicates that are still to run
RerunConfigs ==
    {[f \in DOMAIN c \cup {"num_replicates"} |->
         IF f = "num_replicates" THEN MaxTrials ELSE c[f]] : c \in {CfgLowMana, CfgMcp, CfgPrepop3, CfgPot, CfgLong}}

\* the Simulation after construction: no trial has left anything in it
new_sim ==
    [mangle_debuff |-> FALSE, rip_debuff |-> FALSE, mangle_end |-> 0,
     rip_end |-> 0, rip_ticks |-> <<>>, rip_damage |-> 0,
     swing_timer |-> cfg.swing_timer, swing_times |-> <<>>,
     energy_tick_times |-> <<>>, tf_active |-> FALSE, tf_end |-> 0,
     num_mcp |-> 0, mcp_equipped |-> FALSE, mcp_active |-> FALSE,
     mcp_end |-> 0, mcp_cd |-> 0, time_to_oom |-> -1, next_tick |-> 0]

RerunInit ==
    /\ cfg \in RerunConfigs
    /\ player = reset(cfg)
    /\ sim = new_sim
    /\ time = 0
    /\ previous_time = 0
    /\ pc = "constructed"
    /\ ev = NoEvent
    /\ steplog = <<>>
    /\ err = "none"

\* the first replicate
RunFirst ==
    /\ pc = "constructed"
    /\ cfg.num_replicates > 0
    /\ run_begin(reset(cfg))
    /\ cfg' = [cfg EXCEPT !.num_replicates = @ - 1]

\* a later replicate: run is called on the state the last one left
RunAgain ==
    /\ pc = "done"
    /\ cfg.num_replicates > 0
    /\ run_begin(reset_again(player, cfg))
    /\ cfg' = [cfg EXCEPT !.num_replicates = @ - 1]

RerunNext ==
    \/ RunFirst
    \/ RunAgain
    \/ LoopExit
    \/ Expirations
    \/ RipTick
    \/ Swing
    \/ EnergyTick
    \/ PotTick
    \/ Locked
    \/ PolicyWait
    \/ PolicyShiftBack
    \/ PolicyShift
    \/ PolicyInnervate
    \/ PolicyRip
    \/ PolicyMangle
    \/ PolicyShred
    \/ Advance

RerunSpec == RerunInit /\ [][RerunNext]_vars

TypeOK ==
    /\ pc \in {"trinket", "tally", "params", "process_trinkets", "fight", "player", "constructed", "loop", "rip", "swing", "tick", "pot", "rotate",
               "sample", "done", "raised", "calc_weights", "calc_stat_weights",
               "calc_mana_weights", "run_replicates", "returned", "new"}
    /\ err \in {"none", "KeyError", "IndexError", "ValueError"}
    /\ ev.name \in {"none", "shift", "Shift", "Innervate", "Rip", "Mangle", "Shred", "Claw",
                   "Ferocious Bite", "update", "attack"}

(***************************************************************************)
(* Properties.                                                             *)
(***************************************************************************)
Builders == {"Shred", "Claw", "Mangle"}

Finishers == {"Rip", "Ferocious Bite"}

\* the step is the execution of one ability or shift: the entry of the
\* player's combat log is written by it
CastStep == ev.name = "none" /\ ev'.name # "none"

InLog(e) == \E i \in DOMAIN steplog : steplog[i] = e

\* C1: at every sampled timestep of a trial, 0 <= energy <= 100
C1_EnergyBounds ==
    pc = "sample" => (0 <= player.energy /\ player.energy <= 100 * EN)

\* C2: at every sampled timestep of a trial, 0 <= mana <= mana_pool
C2_ManaBounds ==
    pc = "sample" => (0 <= player.mana /\ player.mana <= cfg.mana_pool)

\* C3: combo points stay within 0..5 after any sequence of builders, Rip and
\* Ferocious Bite casts
C3_ComboBounds == 0 <= player.combo_points /\ player.combo_points <= 5

\* a critical builder has brought the combo points to the cap
C3_Witness ==
    ev.name \in Builders /\ ev.crit /\ player.combo_points = 5

\* the order of events claimed for one step: expirations, damage ticks,
\* basic attack, resource ticks, policy decision
ClaimedRank(e) ==
    IF e \in {"Innervate falls off", "Tiger's Fury falls off",
              "Haste falls off", "Haste applied", "Mangle falls off",
              "Rip falls off", "Fel Mana falls off"} THEN 0
    ELSE IF e = "Rip tick" THEN 1
    ELSE IF e = "melee" THEN 2
    ELSE IF e \in {"energy tick", "Fel Mana tick"} THEN 3
    ELSE 4

\* the order in which Simulation.run applies them
CodeRank(e) ==
    IF e = "Innervate falls off" THEN 0
    ELSE IF e = "Tiger's Fury falls off" THEN 1
    ELSE IF e \in {"Haste falls off", "Haste applied"} THEN 2
    ELSE IF e = "Mangle falls off" THEN 3
    ELSE IF e = "Rip tick" THEN 4
    ELSE IF e = "Rip falls off" THEN 5
    ELSE IF e = "melee" THEN 6
    ELSE IF e = "energy tick" THEN 7
    ELSE IF e = "Fel Mana tick" THEN 8
    ELSE IF e = "Fel Mana falls off" THEN 9
    ELSE IF e = "Tiger's Fury dropped" THEN 11
    ELSE 10

\* C4 as claimed: within one step every expiration comes before every damage
\* tick, then the basic attack, then the resource ticks, then the policy
C4_ClaimedOrder ==
    \A i, j \in DOMAIN steplog :
        i < j => ClaimedRank(steplog[i]) <= ClaimedRank(steplog[j])

\* C4 as amended: within one step the events are applied in the order
\* Innervate, Tiger's Fury, haste and Mangle expirations, Rip tick, Rip
\* expiry, basic attack, energy tick, Fel Mana tick, Fel Mana expiry, policy
\* decision, and last the removal of Tiger's Fury by a shift
C4_CodeOrder ==
    \A i, j \in DOMAIN steplog :
        i < j => CodeRank(steplog[i]) < CodeRank(steplog[j])

\* a step in which Rip ticked and expired and the policy acted
C4_Witness ==
    /\ InLog("Rip tick")
    /\ InLog("Rip falls off")
    /\ pc = "sample"
    /\ ev.name # "none"

ClearcastStep == CastStep /\ ev'.name \in Builders \cup Finishers /\ ev'.clearcast

\* C5 as claimed: the ability that uses a banked Omen of Clarity proc clears
\* the flag and deducts no energy, hit or miss
C5_ClaimedFreeCast ==
    [][ClearcastStep =>
          /\ player.omen_proc
          /\ ~player'.omen_proc
          /\ player'.energy >= player.energy]_vars

\* C5 as amended: the ability that uses a banked proc clears the flag (a flag
\* set afterwards is a new proc rolled by that ability) and pays no energy
\* cost; a builder, a Rip and a missed Bite leave energy as it was (plus a T4
\* proc), a Bite that lands still drains the whole energy pool
C5_FreeCast ==
    [][ClearcastStep =>
          /\ player.omen_proc
          /\ player'.omen_proc =>
                (player.omen_icd = 0 /\ player'.omen_icd = 10 * MS)
          /\ LET kept == IF ev'.name = "Ferocious Bite" /\ ~ev'.miss
                         THEN 0 ELSE player.energy
             IN player'.energy = IF ~ev'.miss /\ player'.t4_proc
                                 THEN Min(kept + 20 * EN, 100 * EN)
                                 ELSE kept]_vars

\* a Ferocious Bite cast on a banked proc has landed
C5_Witness ==
    ev.name = "Ferocious Bite" /\ ev.clearcast /\ ~ev.miss /\ ~player.omen_proc

\* C6: a finisher that lands sets the combo points to 0 in the step that logs
\* it, a finisher that misses leaves them as they were
C6_FinisherCombo ==
    [][(CastStep /\ ev'.name \in Finishers) =>
          player'.combo_points =
              (IF ev'.miss THEN player.combo_points ELSE 0)]_vars

\* a Rip has missed with the combo points still banked
C6_Witness ==
    ev.name = "Rip" /\ ev.miss /\ player.combo_points >= 4

BiteMissStep == CastStep /\ ev'.name = "Ferocious Bite" /\ ev'.miss

\* C7 as claimed: a Ferocious Bite that misses leaves energy and combo points
\* at their values before the cast
C7_ClaimedBiteMiss ==
    [][BiteMissStep =>
          /\ player'.energy = player.energy
          /\ player'.combo_points = player.combo_points]_vars

\* C7 as amended: a Ferocious Bite that misses leaves the combo points as they
\* were and takes only its 35 energy base cost (nothing on a banked free
\* cast); the rest of the energy pool is kept
C7_BiteMiss ==
    [][BiteMissStep =>
          /\ player'.combo_points = player.combo_points
          /\ player'.energy = IF ev'.clearcast THEN player.energy
                              ELSE player.energy - 35 * EN]_vars

\* a Ferocious Bite paid with energy has missed
C7_Witness ==
    ev.name = "Ferocious Bite" /\ ev.miss /\ ~ev.clearcast

\* C8: the policy performs no shift and no Innervate while mana is below the
\* shift cost
C8_NoShiftOutOfMana ==
    [][(CastStep /\ ev'.name \in {"shift", "Innervate"}) =>
          player.mana >= shift_cost(cfg)]_vars

\* C9: every Rip the policy requests is cast with a combo point count for
\* which the damage per tick is defined
C9_RipDefined ==
    (pc = "rotate" /\ can_act /\ Decision(player, sim) = "rip")
        => rip_defined(player)

\* C10: every trial reaches a simulation time beyond the fight length
C10_Terminates == <>(pc = "done" /\ time > fight_length)

\* C11: the time chosen at the end of a step of the event loop is greater
\* than the time of that step, and time changes nowhere else
C11_TimeIncreases ==
    [][(time' # time \/ (pc = "sample" /\ pc' = "loop")) => time' > time]_vars

\* the loop has moved to the end of the recovery delay of the last cast
\* while a Rip and a haste buff are running
C11_Witness ==
    /\ pc = "loop"
    /\ player.gcd > 0
    /\ time = previous_time + player.gcd
    /\ sim.rip_debuff
    /\ sim.mcp_active

\* C12: when calc_deriv returns, the attribute it perturbed has the value it
\* had before the call
C12_DerivRoundTrip ==
    [][(pc = "run_replicates" /\ pc' # "raised")
          => cfg'[sim.param] = sim.original_value /\ cfg' = sim.attributes]_vars

\* calc_mana_weights has returned after perturbing mana pool, spirit and mp5
C12_Witness ==
    /\ pc = "returned"
    /\ Len(steplog) = 9
    /\ steplog[9] = "mp5"
    /\ cfg.mp5 = sim.attributes.mp5

\* C13: whenever calc_deriv is left, by return or by an exception of
\* run_replicates, the attribute has its original value
C13_RestoreOnFailure ==
    [][pc = "run_replicates" => cfg'[sim.param] = sim.original_value]_vars

\* a perturbed run of the haste derivative has raised
C13_Failure ==
    pc = "raised" /\ sim.param = "swing_timer"

\* C14: with fewer than 20000 replicates calc_weights returns the error
\* result with an empty table, without calling calc_stat_weights and without
\* changing the Player; with 20000 or more it ends by returning a table of
\* stat weights
C14_WeightsThreshold ==
    /\ (pc \in {"returned", "raised", "calc_stat_weights", "calc_mana_weights",
                "run_replicates"} /\ sim.num_replicates < MinReplicates)
          => /\ pc = "returned"
             /\ sim.label = "Error: "
             /\ sim.weights_table = <<>>
             /\ ~sim.stat_weights_called
             /\ cfg = sim.attributes
    /\ (pc \in {"returned", "raised"} /\ sim.num_replicates >= MinReplicates)
          => /\ pc = "returned"
             /\ sim.label = "Stat Breakdown"
             /\ Len(sim.weights_table) >= 6
             /\ \A i \in 1..6 :
                    sim.weights_table[i] = stat_derivs(cfg)[i].stat

recognised(key) == key \in DOMAIN default_params \cup DOMAIN default_strategy

\* C15: Simulation(...) raises exactly when a keyword is neither an encounter
\* parameter nor a strategy key; otherwise the keywords given override the
\* defaults and every other key keeps its default
C15_ConstructKeys ==
    [][pc = "new" =>
          LET kw == sim'.kwargs
              given == {kw[i] : i \in DOMAIN kw}
          IN /\ (pc' = "raised") <=> (\E key \in given : ~recognised(key))
             /\ pc' = "raised" => err' = "KeyError"
             /\ pc' # "raised" =>
                   /\ pc' = "constructed"
                   /\ \A key \in DOMAIN default_params :
                         sim'.params[key] =
                            IF key \in given THEN kwarg_value(key)
                            ELSE default_params[key]
                   /\ \A key \in DOMAIN default_strategy :
                         sim'.strategy[key] =
                            IF key \in given THEN kwarg_value(key)
                            ELSE default_strategy[key]]_vars

\* a Simulation constructed with an encounter and a strategy keyword
C15_Witness ==
    /\ pc = "constructed"
    /\ sim.kwargs = <<"boss_armor", "min_combos_for_rip">>
    /\ sim.params.boss_armor = 6200
    /\ sim.strategy.min_combos_for_rip = 5
    /\ sim.strategy.use_innervate

\* C16 as claimed: the error of Simulation(...) holds every unsupported
\* keyword that was given, and the supported keys
C16_ClaimedAllInvalid ==
    (pc = "raised" /\ err = "KeyError") =>
        /\ \A i \in DOMAIN sim.kwargs :
              ~recognised(sim.kwargs[i]) => InList(sim.message.invalid, sim.kwargs[i])
        /\ sim.message.valid = params_keys \o strategy_keys

\* C16 as amended: the error of Simulation(...) holds the first unsupported
\* keyword only, and the supported encounter and strategy keys; the error of
\* set_active_debuffs holds every name left over, and the keys of params
C16_FirstInvalid ==
    /\ (pc = "raised" /\ err = "KeyError") =>
          /\ \E i \in DOMAIN sim.kwargs :
                /\ sim.message.invalid = <<sim.kwargs[i]>>
                /\ ~recognised(sim.kwargs[i])
                /\ \A j \in 1..(i - 1) : recognised(sim.kwargs[j])
          /\ sim.message.valid = params_keys \o strategy_keys
    /\ (pc = "raised" /\ err = "ValueError") =>
          /\ \A d \in DebuffNames :
                (~InList(all_debuffs, d) /\ InList(sim.debuff_list, d))
                    => InList(sim.message.invalid, d)
          /\ sim.message.valid = params_keys

\* Simulation(...) has raised on two unsupported keywords
C16_Witness ==
    /\ pc = "raised"
    /\ sim.kwargs = <<"rip_cp", "sunder", "armor">>
    /\ sim.message.invalid = <<"rip_cp">>

\* C17: set_active_debuffs raises exactly when the list holds a name outside
\* the allow-list; otherwise each debuff flag is TRUE exactly when its name is
\* in the list, and boss_armor is unchanged
C17_ActiveDebuffs ==
    [][pc = "constructed" =>
          LET L == sim'.debuff_list
          IN /\ (pc' = "raised") <=>
                   (\E i \in DOMAIN L : ~InList(all_debuffs, L[i]))
             /\ pc' # "raised" =>
                   /\ \A i \in DOMAIN all_debuffs :
                         sim'.params[all_debuffs[i]] = InList(L, all_debuffs[i])
                   /\ sim'.params.boss_armor = sim.params.boss_armor]_vars

\* C18: the stack counter of the Badge of the Swarmguard never exceeds 6,
\* while it is active it adds 200 armor penetration per stack, and its
\* deactivation takes off stacks x 200, which is all it added
C18_BadgeStacks ==
    [][sim.trinket.type = "badge" =>
          LET tr == sim.trinket
              after == sim'.trinket
          IN /\ after.num_stacks <= 6
             /\ after.active =>
                   cfg'.armor_pen = sim'.before + 200 * after.num_stacks
             /\ (tr.active /\ ~after.active) =>
                   /\ cfg'.armor_pen = cfg.armor_pen - 200 * tr.num_stacks
                   /\ cfg'.armor_pen = sim.before]_vars

\* the Badge holds six stacks and an update has refused a further proc
C18_Witness ==
    /\ sim.trinket.type = "badge"
    /\ sim.trinket.active
    /\ sim.trinket.num_stacks = 6
    /\ ~sim.trinket.can_proc
    /\ cfg.armor_pen = sim.before + 1200

\* C19: an active trinket stays active in every update before activation
\* time + proc_duration and is deactivated by the first update at or after
\* it; the deactivation takes off what the activation added (for the Badge,
\* what its stacks added) and the stat is back at its value before the
\* activation, unless a proc re-activates the trinket in that same update
C19_Deactivation ==
    [][(pc = "trinket" /\ ev'.name = "update") =>
          LET tr == sim.trinket
              after == sim'.trinket
              stat_name == tr.stat_name
              due == tr.active /\ time' >= tr.deactivation_time
              added == IF tr.type = "badge" THEN 200 * tr.num_stacks
                       ELSE tr.stat_increment
          IN /\ (tr.active /\ ~due) =>
                   after.active /\ cfg'[stat_name] >= cfg[stat_name]
             /\ (due /\ ~after.active) =>
                   /\ cfg'[stat_name] = cfg[stat_name] - added
                   /\ cfg'[stat_name] = sim.before
             /\ (due /\ after.active) =>
                   /\ after.activation_time = time'
                   /\ cfg'[stat_name] = sim.before + after.stat_increment]_vars

\* a proc trinket has been deactivated by an update made after its
\* deactivation time
C19_Witness ==
    /\ sim.trinket.type = "proc"
    /\ ev.name = "update"
    /\ ~sim.trinket.active
    /\ sim.trinket.activation_time >= 0
    /\ previous_time < sim.trinket.deactivation_time
    /\ sim.trinket.deactivation_time < time
    /\ cfg.attack_power = sim.before

\* C20: an Activated or Proc trinket is ready only when the time since its
\* last activation has reached the cooldown: an activation comes cooldown
\* or more after the one before, and a proc roll made while the trinket is
\* cooling down leaves no proc to apply
C20_Cooldown ==
    [][sim.trinket.type \in {"activated", "proc", "refreshing_proc"} =>
          LET tr == sim.trinket
              after == sim'.trinket
          IN /\ after.activation_time # tr.activation_time =>
                   /\ after.activation_time = time'
                   /\ time' - tr.activation_time >= tr.cooldown
             /\ after.can_proc =>
                   time' - after.activation_time >= after.cooldown
             /\ (ev'.name = "attack"
                    /\ time - tr.activation_time < tr.cooldown) =>
                   ~after.proc_happened]_vars

\* an attack has rolled for a proc while the proc trinket, deactivated
\* after a first activation, was still cooling down: no proc is pending
C20_Witness ==
    /\ sim.trinket.type = "proc"
    /\ ev.name = "attack"
    /\ sim.trinket.activation_time >= 0
    /\ ~sim.trinket.active
    /\ time >= sim.trinket.deactivation_time
    /\ time - sim.trinket.activation_time < sim.trinket.cooldown
    /\ ~sim.trinket.can_proc
    /\ ~sim.trinket.proc_happened

\* C21: a Proc trinket with chance_on_hit = 1.0 and cooldown = 0 activates
\* on every qualifying attack: every call of check_for_proc leaves a proc
\* pending, and the update that follows an attack activates the trinket
C21_ProcOnEveryAttack ==
    [][/\ ev'.name = "attack" => sim'.trinket.proc_happened
       /\ (ev.name = "attack" /\ ev'.name = "update") =>
             /\ sim'.trinket.active
             /\ sim'.trinket.activation_time = time']_vars

\* an attack made after the update that activated the trinket has left no
\* proc pending
C21_Witness ==
    /\ sim.trinket.type = "proc"
    /\ sim.trinket.cooldown = 0
    /\ ev.name = "attack"
    /\ sim.trinket.active
    /\ sim.trinket.activation_time = time
    /\ ~sim.trinket.can_proc
    /\ ~sim.trinket.proc_happened

\* C22: a RefreshingProc trinket that procs while active is refreshed, not
\* stacked: while it is active the stat is its original value plus one
\* magnitude, the update that applies a proc to the active trinket moves
\* the expiry to that update's time + proc_duration, and once the trinket
\* is inactive the stat is back at its original value
C22_RefreshNotStack ==
    [][sim.trinket.type = "refreshing_proc" =>
          LET tr == sim.trinket
              after == sim'.trinket
              original == CfgRandom[tr.stat_name]
          IN /\ after.active =>
                   /\ cfg'[tr.stat_name] = original + tr.stat_increment
                   /\ after.deactivation_time
                         = after.activation_time + tr.proc_duration
             /\ ~after.active => cfg'[tr.stat_name] = original
             /\ (ev'.name = "update" /\ tr.active /\ tr.proc_happened) =>
                   /\ after.active
                   /\ after.activation_time = time'
                   /\ after.deactivation_time = time' + tr.proc_duration]_vars

\* the trinket has been re-activated before the buff in place had expired:
\* the end time of that buff is still ahead
C22_Witness ==
    /\ sim.trinket.type = "refreshing_proc"
    /\ ev.name = "update"
    /\ sim.trinket.active
    /\ sim.trinket.activation_time = time
    /\ Len(sim.proc_end_times) = 2
    /\ sim.proc_end_times[1] < time + sim.trinket.proc_duration
    /\ cfg.armor_pen = CfgRandom.armor_pen + sim.trinket.stat_increment

\* C23: an on-use trinket in the second slot gets the delay cd_delay + the
\* first trinket's proc_duration when the first slot holds an on-use
\* trinket, and the delay cd_delay when it holds a proc trinket, a passive
\* trinket or none; it has never been activated before its delay
C23_SharedCooldown ==
    (pc = "fight" /\ sim.trinket_2 # "none"
       /\ trinket_library[sim.trinket_2].type = "activated") =>
        LET second == sim.all_trinkets[Len(sim.all_trinkets)]
            first_activated ==
                /\ sim.trinket_1 # "none"
                /\ trinket_library[sim.trinket_1].type = "activated"
            ready_time ==
                IF first_activated
                THEN sim.cd_delay
                     + trinket_library[sim.trinket_1].active_stats.proc_duration
                ELSE sim.cd_delay
        IN /\ second.delay = ready_time
           /\ second.active => second.activation_time >= ready_time
           /\ (second.can_proc \/ second.active) => time >= ready_time
           /\ first_activated =>
                 second.delay >= sim.all_trinkets[1].delay
                                   + sim.all_trinkets[1].proc_duration

\* two on-use trinkets: the first has been used and has expired, the second
\* has been activated exactly at cd_delay + the first one's proc_duration
C23_Witness ==
    /\ pc = "fight"
    /\ sim.trinket_1 = "crystalforged"
    /\ sim.trinket_2 = "brooch"
    /\ sim.cd_delay = 15 * MS
    /\ ~sim.all_trinkets[1].active
    /\ sim.all_trinkets[1].activation_time = 15 * MS
    /\ sim.all_trinkets[2].active
    /\ sim.all_trinkets[2].activation_time = 25 * MS

\* the cast that the priority list of C24 asks for at a decision point:
\* Rip, else Mangle, else Shred, each when it is needed and can be paid for
priority_cast(p, s) ==
    LET payable(energy_cost) == (p.energy >= energy_cost * EN) \/ p.omen_proc
    IN IF (~s.rip_debuff) /\ (p.combo_points >= cfg.min_combos_for_rip)
          /\ payable(30)
       THEN "Rip"
       ELSE IF (~s.mangle_debuff) /\ payable(40) THEN "Mangle"
       ELSE IF payable(42) THEN "Shred"
       ELSE "none"

\* the policy step has made the cast (a Rip may also end the trial with the
\* KeyError of its per-tick table)
cast_made(name) ==
    \/ steplog' = Append(steplog, name)
    \/ name = "Rip" /\ pc' = "raised" /\ err' = "KeyError"

\* C24 as claimed: at every decision point the policy casts Rip when Rip is
\* not on the target, combo points reach min_combos_for_rip and Rip can be
\* paid for; otherwise Mangle when the Mangle debuff is not active and
\* Mangle can be paid for; otherwise Shred when it can be paid for
C24_ClaimedPriority ==
    [][(pc = "rotate" /\ can_act /\ priority_cast(player, sim) # "none")
          => cast_made(priority_cast(player, sim))]_vars

\* C24 as the code has it: the priority list is followed at the decision
\* points where the Fighter is in cat form and either is out of mana for a
\* shift, or has at least 22 energy, or has no free cast banked
C24_Priority ==
    [][(/\ pc = "rotate" /\ can_act
        /\ priority_cast(player, sim) # "none"
        /\ player.cat_form
        /\ (oom(player) \/ player.energy >= 22 * EN \/ ~player.omen_proc))
          => cast_made(priority_cast(player, sim))]_vars

\* a Rip has just been applied with a banked free cast
C24_Witness ==
    /\ pc = "sample"
    /\ ev.name = "Rip"
    /\ ev.clearcast
    /\ ~ev.miss
    /\ sim.rip_debuff
    /\ sim.rip_end = time + 12 * MS
    /\ player.cat_form

\* the low and high damage bounds of every ability in a record of damage
\* parameters a are at least those in b
bounds_at_least(a, b) ==
    /\ \A k \in {"white_low", "white_high", "shred_low", "shred_high",
                 "claw_low", "claw_high", "mangle_low", "mangle_high"} :
          a[k] >= b[k]
    /\ \A k \in {"bite_low", "bite_high", "rip_tick"} :
          \A cp \in {4, 5} : a[k][cp] >= b[k][cp]

\* C26: for fixed Player attributes and boss armor the residual armor is
\* never negative, one more armor debuff never increases it, and every low
\* and high damage bound is then at least what it was before, and at least
\* what it is without any armor debuff
C26_ArmorMonotone ==
    [][pc = "params" =>
          /\ sim.derived.residual_armor >= 0
          /\ sim'.derived.residual_armor >= 0
          /\ sim'.derived.residual_armor <= sim.derived.residual_armor
          /\ bounds_at_least(sim'.derived, sim.derived)
          /\ bounds_at_least(sim'.derived, sim.baseline)]_vars

\* every armor debuff is on, the armor that was left without them is gone
\* and Shred hits harder than without them
C26_Witness ==
    /\ pc = "params"
    /\ \A debuff \in armor_debuffs : sim.params[debuff]
    /\ sim.baseline.residual_armor > 0
    /\ sim.derived.residual_armor = 0
    /\ sim.derived.shred_low > sim.baseline.shred_low
    /\ sim.derived.white_high > sim.baseline.white_high

\* np.sum over a list
RECURSIVE list_sum(_)
list_sum(l) == IF l = <<>> THEN 0 ELSE Head(l) + list_sum(Tail(l))

\* the sum of the 'damage' entries of a breakdown
breakdown_sum(dmg_breakdown) ==
    dmg_breakdown["Melee"].damage + dmg_breakdown["Mangle"].damage
    + dmg_breakdown["Shred"].damage + dmg_breakdown["Rip"].damage
    + dmg_breakdown["Claw"].damage + dmg_breakdown["Ferocious Bite"].damage
    + dmg_breakdown["Shift"].damage

\* C25: when run returns, the sum of the per-step damage values equals the
\* sum of the 'damage' entries of the returned breakdown, Rip being counted
\* by the ticks realised in the trial
C25_DamageSums ==
    pc = "returned" =>
        /\ list_sum(sim.damage) = breakdown_sum(player.dmg_breakdown)
        /\ player.dmg_breakdown["Rip"].damage = sim.rip_damage

\* a returned trial with a landed Rip that ticked fewer than six times, a
\* swing and a Shred
C25_Witness ==
    /\ pc = "returned"
    /\ player.dmg_breakdown["Rip"].casts = 1
    /\ sim.rip_damage > 0
    /\ sim.rip_damage < 6 * sim.per_tick
    /\ player.dmg_breakdown["Melee"].damage > 0
    /\ player.dmg_breakdown["Shred"].damage > 0

\* the combo points a builder adds for its outcome
points_added(miss, crit) == (IF miss THEN 0 ELSE 1) + (IF crit THEN 1 ELSE 0)

\* C27: a builder (Claw, Shred, Mangle) adds 0 combo points on a miss, 1 on a
\* normal hit and 2 on a critical hit, capped at 5, and sets the gcd to 1.0 s
\* whatever the outcome
C27_BuilderPoints ==
    [][(CastStep /\ ev'.name \in Builders) =>
          /\ ev'.miss => ~ev'.crit
          /\ player'.combo_points =
                Min(5, player.combo_points + points_added(ev'.miss, ev'.crit))
          /\ player'.gcd = 1 * MS]_vars

\* a Shred that was a critical hit has left the Fighter at the cap of 5
\* combo points with the gcd running
C27_Witness ==
    /\ pc = "player"
    /\ ev.name = "Shred"
    /\ ev.crit
    /\ player.combo_points = 5
    /\ player.gcd = 1 * MS

\* line 1141: the damage of a Rip tick, tick_damage
tick_damage(s) == (s.rip_damage * (IF s.mangle_debuff THEN 13 ELSE 10)) \div 10

\* lines 1140: a Rip tick happens in this step
rip_tick_now ==
    /\ pc = "rip"
    /\ sim.rip_debuff
    /\ sim.rip_ticks # <<>>
    /\ time = sim.rip_ticks[1]

\* the policy step has cast a Rip
rip_cast == pc = "rotate" /\ steplog' = Append(steplog, "Rip")

\* the per-tick value is fixed by a Rip that lands, from the combo points held
\* at the cast, six ticks are scheduled and nothing else in the trial changes
\* the value; a Rip that misses schedules nothing and keeps the combo points
RipFixedAtCast ==
    /\ (rip_cast /\ ~ev'.miss) =>
          /\ sim'.rip_damage = rip_tick(cfg)[player.combo_points]
          /\ sim'.rip_debuff
          /\ Len(sim'.rip_ticks) = 6
          /\ sim'.rip_ticks[1] = time + 2 * MS
          /\ player'.combo_points = 0
    /\ (rip_cast /\ ev'.miss) =>
          /\ sim'.rip_ticks = sim.rip_ticks
          /\ sim'.rip_debuff = sim.rip_debuff
          /\ sim'.rip_damage = sim.rip_damage
          /\ player'.combo_points = player.combo_points
    /\ (pc # "constructed" /\ ~rip_cast) => sim'.rip_damage = sim.rip_damage

\* C28 as claimed: the per-tick damage of a Rip is fixed at the cast and every
\* later tick of the application deals that same value; a missed Rip schedules
\* no ticks and consumes no combo points
C28_ClaimedSameTick ==
    [][/\ RipFixedAtCast
       /\ rip_tick_now => tick_damage(sim) = sim.rip_damage]_vars

\* C28 as the code has it: the per-tick value is fixed at the cast and is not
\* recomputed, and a tick deals that value while the Mangle debuff is not on
\* the target and 1.3 times that value while it is; a missed Rip schedules no
\* ticks and consumes no combo points
C28_TickFromCast ==
    [][/\ RipFixedAtCast
       /\ rip_tick_now =>
             /\ sim.rip_damage \in {rip_tick(cfg)[4], rip_tick(cfg)[5]}
             /\ sim'.rip_damage = sim.rip_damage
             /\ ~sim.mangle_debuff => tick_damage(sim) = sim.rip_damage
             /\ sim.mangle_debuff =>
                   tick_damage(sim) = (13 * sim.rip_damage) \div 10]_vars

\* a Rip has ticked while the Mangle debuff was on the target
C28_Witness ==
    /\ pc = "swing"
    /\ InLog("Rip tick")
    /\ sim.mangle_debuff
    /\ sim.rip_damage > 0

\* the policy step has performed the player action name
acted(name) == pc = "rotate" /\ steplog' = Append(steplog, name)

\* the gcd a player action starts
action_lock(name) == IF name \in {"shift", "Innervate"} THEN 1500 ELSE 1 * MS

PlayerActions == {"Rip", "Mangle", "Shred", "shift", "Innervate"}

\* C29: the policy acts only at steps where the gcd has fully elapsed, an
\* action starts a gcd of 1.0 s (1.5 s for a shift or Innervate) that falls
\* only by the time that has passed, so that an action is at least 1.0 s
\* after the last Rip or Mangle that landed and at least 1.5 s after the last
\* shift or Innervate
C29_ActionLock ==
    [][/\ (pc = "rotate" /\ (steplog' # steplog \/ player' # player)) =>
             /\ player.gcd = 0
             /\ \E name \in PlayerActions :
                   acted(name) /\ player'.gcd = action_lock(name)
             /\ sim.rip_end > 0 => time >= (sim.rip_end - 12 * MS) + 1 * MS
             /\ sim.mangle_end > 0 =>
                   time >= (sim.mangle_end - 12 * MS) + 1 * MS
             /\ player.last_cast_time > 0 =>
                   time >= player.last_cast_time + 1500
             /\ player.innervate_end > 0 =>
                   time >= (player.innervate_end - 20 * MS) + 1500
       /\ (pc = "loop" /\ pc' \notin {"loop", "done"}) =>
             player'.gcd = Max(0, player.gcd - (time - previous_time))
       /\ (pc \notin {"loop", "rotate", "constructed"} \/ pc' = "done") =>
             player'.gcd = player.gcd
       /\ (pc # "constructed" /\ time' # time) =>
             (pc = "sample" /\ previous_time' = time /\ time' > time)]_vars

\* the policy has acted 1.5 s after a shift, as soon as the gcd had elapsed
C29_Witness ==
    /\ pc = "sample"
    /\ ev.name \in {"Mangle", "Shred", "Rip"}
    /\ player.last_cast_time > 0
    /\ time = player.last_cast_time + 1500

InLogNext(e) == \E i \in DOMAIN steplog' : steplog'[i] = e

\* the Player without what an earlier trial left in the attributes that
\* Player.reset does not assign: each is looked at only while its flag is set
live_player(p) ==
    [p EXCEPT !.pot_ticks = IF p.pot_active THEN @ ELSE <<>>,
              !.pot_end = IF p.pot_active THEN @ ELSE 0,
              !.innervate_end = IF p.innervated THEN @ ELSE 0,
              !.last_cast_time = IF p.five_second_rule THEN @ ELSE 0]

\* the Simulation without what an earlier trial left in the attributes that
\* run does not assign at the start
live_sim(s) ==
    [s EXCEPT !.rip_end = IF s.rip_debuff THEN @ ELSE 0,
              !.rip_ticks = IF s.rip_debuff THEN @ ELSE <<>>,
              !.rip_damage = IF s.rip_debuff THEN @ ELSE 0,
              !.mangle_end = IF s.mangle_debuff THEN @ ELSE 0,
              !.tf_end = IF s.tf_active THEN @ ELSE 0,
              !.mcp_active = IF cfg.max_mcp >= 1 THEN @ ELSE FALSE,
              !.mcp_end = IF cfg.max_mcp >= 1 THEN @ ELSE 0,
              !.mcp_cd = IF cfg.max_mcp >= 1 THEN @ ELSE 0]

\* a trial starts as the first trial of a new Simulation starts, for some
\* draw of the first energy tick and the first swing
StartsFresh ==
    (pc \in {"constructed", "done"} /\ pc' = "loop") =>
        /\ live_player(player') = live_player(begin_player(reset(cfg)))
        /\ \E r_tick \in Rolls, r_swing \in Rolls :
              \* next_tick is assigned in every timestep before it is used
              [live_sim(sim') EXCEPT !.next_tick = 0] =
                  live_sim(begin_sim(new_sim, 2 * r_tick, r_swing \div 10))
        /\ time' = 0
        /\ previous_time' = 0
        /\ steplog' = <<>>
        /\ ev' = NoEvent

\* what an earlier trial left is not looked at: the decision of the policy
\* and the next timestep are the same without it, and an expiry or tick is
\* logged only for an effect that is active
LeftoversUnread ==
    /\ (pc = "rotate" /\ can_act) =>
          Decision(player, sim) = Decision(live_player(player), live_sim(sim))
    /\ (pc = "sample" /\ pc' = "loop") =>
          time' = next_time(live_player(player), live_sim(sim), time)
    /\ (pc = "loop" /\ pc' = "rip") =>
          /\ sim.mangle_debuff \/ ~InLogNext("Mangle falls off")
          /\ player.innervated \/ ~InLogNext("Innervate falls off")
          /\ sim.tf_active \/ ~InLogNext("Tiger's Fury falls off")
          /\ player.five_second_rule \/ ~player'.five_second_rule
    /\ (pc = "rip" /\ ~sim.rip_debuff) =>
          (steplog' = steplog /\ live_sim(sim') = live_sim(sim))
    /\ (pc = "pot" /\ ~player.pot_active) =>
          (steplog' = steplog /\ live_player(player') = live_player(player))

\* an effect that starts in a trial writes the attributes that go with it
EffectsWritten ==
    /\ (pc # "constructed" /\ ~sim.rip_debuff /\ sim'.rip_debuff) =>
          /\ sim'.rip_end = time + 12 * MS
          /\ sim'.rip_ticks = arange(time + 2 * MS, time + 12010, 2 * MS)
          /\ sim'.rip_damage = rip_tick(cfg)[player.combo_points]
    /\ (~sim.mangle_debuff /\ sim'.mangle_debuff) =>
          sim'.mangle_end = time + 12 * MS
    /\ (~player.five_second_rule /\ player'.five_second_rule) =>
          player'.last_cast_time = time
    /\ (~player.innervated /\ player'.innervated) =>
          player'.innervate_end = time + 20 * MS
    /\ (~player.pot_active /\ player'.pot_active) =>
          /\ player'.pot_end = time + 24 * MS
          /\ player'.pot_ticks = arange(time + 3 * MS, time + 24010, 3 * MS)

\* C30: a trial that follows earlier trials on the same Simulation and Player
\* starts in the state in which a first trial starts and never looks at what
\* the earlier trials left behind, so that with the same draws and fight
\* length it produces the trace of a first trial
C30_TrialsIndependent ==
    [][StartsFresh /\ LeftoversUnread /\ EffectsWritten]_vars

\* a later trial is at a decision point while the Rip and Mangle timers of
\* an earlier trial are still in the Simulation: compared with the next
\* energy tick they give another answer than the timers of a new Simulation
C30_Witness ==
    /\ cfg.num_replicates < MaxTrials - 1
    /\ pc = "rotate"
    /\ can_act
    /\ ~sim.rip_debuff
    /\ sim.rip_end > sim.next_tick
    /\ ~sim.mangle_debuff
    /\ sim.mangle_end > sim.next_tick
    /\ player.last_cast_time > time

\* the attributes of the Player that differ from their values before
\* calc_weights
perturbed == {f \in DOMAIN cfg : cfg[f] # sim.attributes[f]}

\* C31: during calc_stat_weights and calc_mana_weights at most one attribute
\* differs from its original value, an attribute is perturbed only when all
\* are restored, and the replicates of a perturbation run on parameters
\* recomputed from the attributes with exactly that perturbation
C31_OneAtATime ==
    [][/\ Cardinality(perturbed) <= 1
       /\ perturbed # {} =>
             (perturbed = {sim.param} /\ pc \in {"run_replicates", "raised"})
       /\ pc' = "run_replicates" =>
             /\ perturbed = {}
             /\ cfg' = [sim.attributes EXCEPT ![sim'.param] =
                           sim'.original_value
                           + sim'.derivs[sim'.done + 1].increment]
             /\ sim'.original_value = sim.attributes[sim'.param]
       /\ pc = "run_replicates" =>
             /\ sim'.derived = cfg
             /\ pc' # "raised" => cfg' = sim.attributes]_vars

\* the replicates of the last perturbation of calc_mana_weights are running,
\* the parameters still being those of the perturbation before
C31_Witness ==
    /\ pc = "run_replicates"
    /\ sim.param = "mp5"
    /\ perturbed = {"mp5"}
    /\ sim.derived.spirit # sim.attributes.spirit

\* lines 1307-1311: the time run_replicates records for the trial
oom_time(s, c) == IF s.time_to_oom = -1 THEN c.fight_length ELSE s.time_to_oom

\* C32: the marker is unset when the trial starts, is set to the time of the
\* first policy decision at which mana is below the shift cost, and does not
\* change afterwards; run_replicates records it, or the fight length when it
\* was never set
C32_MarkerFirstOom ==
    [][/\ (pc = "constructed" /\ pc' = "loop") => sim'.time_to_oom = -1
       /\ (pc = "rotate" /\ can_act /\ oom(player) /\ sim.time_to_oom = -1)
             => sim'.time_to_oom = time
       /\ (pc # "constructed" /\ sim.time_to_oom # -1)
             => sim'.time_to_oom = sim.time_to_oom
       /\ sim'.time_to_oom # sim.time_to_oom
             => (pc = "rotate" /\ can_act /\ oom(player))
       /\ pc' = "done"
             => oom_time(sim', cfg') \in {sim.time_to_oom, cfg.fight_length}]_vars

\* the shift back into cat form after Innervate was decided with mana below
\* the shift cost and left the marker unset
C32_Witness ==
    /\ pc = "sample"
    /\ ev.name = "shift"
    /\ player.mana < 0
    /\ sim.time_to_oom = -1

\* the trinket has not been activated since reset
never_activated(tr) ==
    /\ ~tr.active
    /\ tr.activation_time = IF tr.delay # 0 THEN tr.delay - tr.cooldown
                            ELSE NegInf

derived_params(c) ==
    [damage |-> calc_damage_params(c, default_params, FALSE),
     regen_rates |-> regen_rates(c),
     pot_threshold |-> pot_threshold(c)]

\* C34: after calc_deriv, and so after calc_weights, has returned, the
\* derived damage and mana-regen parameters are those computed from the
\* restored attributes
C34_DerivedRestored ==
    [][/\ (pc = "run_replicates" /\ pc' # "raised")
             => derived_params(sim'.derived) = derived_params(cfg')
       /\ pc' = "returned"
             => derived_params(sim'.derived) = derived_params(cfg')]_vars

\* calc_weights has returned with every attribute restored, and the damage
\* range of a melee swing is still that of 12 more bonus damage
C34_Witness ==
    /\ pc = "returned"
    /\ cfg = sim.attributes
    /\ sim.label = "Stat Breakdown"
    /\ sim.derived.bonus_damage = cfg.bonus_damage + 12
    /\ derived_params(sim.derived).damage.white_low
          > derived_params(cfg).damage.white_low

\* C35: whatever the attacks and updates, the trinket adds its magnitude to
\* the target stat of the Player while it is active and nothing while it is
\* not (here for a ProcTrinket with a cooldown shorter than its duration)
C35_StatMatchesActive ==
    cfg[sim.trinket.stat_name]
        = CfgRandom[sim.trinket.stat_name]
          + (IF sim.trinket.active THEN sim.trinket.stat_increment ELSE 0)

\* the buff has fallen off and the stat keeps one increment: the trinket was
\* activated twice and deactivated once
C35_Witness ==
    /\ sim.trinket.type = "proc"
    /\ sim.trinket.cooldown < sim.trinket.proc_duration
    /\ ~sim.trinket.active
    /\ sim.trinket.activation_time > 0
    /\ cfg[sim.trinket.stat_name]
          = CfgRandom[sim.trinket.stat_name] + sim.trinket.stat_increment

\* the time of the first pending event of a list, or the fallback if the
\* list is not read
head_or(l, read, fallback) == IF read /\ l # <<>> THEN l[1] ELSE fallback

\* C36: time never passes the head of a pending event list (swings, energy
\* ticks, Rip ticks while Rip is up, potion ticks while the potion is
\* active), and a list is not empty when its head is read (the read of an
\* empty list raises IndexError)
C36_HeadsAhead ==
    /\ err # "IndexError"
    /\ pc \in {"loop", "rip", "swing", "tick", "pot", "rotate", "sample"} =>
          /\ time <= head_or(sim.swing_times, TRUE, time)
          /\ time <= head_or(sim.energy_tick_times, TRUE, time)
          /\ time <= head_or(sim.rip_ticks, sim.rip_debuff, time)
          /\ time <= head_or(player.pot_ticks, player.pot_active, time)

\* the step at fight_length popped the last swing and then read the head
\* of an empty list
C36_Witness ==
    /\ pc = "raised"
    /\ err = "IndexError"
    /\ time = cfg.fight_length
    /\ sim.swing_times = <<>>

\* C37: from an Innervate cast until the following shift the player is out
\* of cat form; in that interval energy stays 0 across energy ticks, no melee
\* swing and no ability is executed, and the first action once the action
\* lock has ended is the shift back into cat form
C37_InnervateInterval ==
    [][/\ (player.cat_form /\ ~player'.cat_form)
             => (ev'.name = "Innervate" /\ player'.energy = 0)
       /\ ~player.cat_form =>
             /\ player.energy = 0 /\ player'.energy \in {0, 60 * EN}
             /\ pc = "swing" => (steplog' = steplog /\ player' = player)
             /\ (pc = "rotate" /\ ~can_act) => player' = player
             /\ (pc = "rotate" /\ can_act)
                   => (ev'.name = "shift" /\ player'.cat_form
                       /\ player'.energy = 60 * EN)
             /\ player'.cat_form => pc = "rotate"]_vars

\* a melee swing was made out of cat form, in the step of the shift back
C37_Witness ==
    /\ pc = "tick"
    /\ ~player.cat_form
    /\ player.gcd = 0
    /\ steplog # <<>>
    /\ steplog[Len(steplog)] = "melee"

\* C38: Rip is not applied while an earlier Rip is on the target; a Rip that
\* lands ticks only 2, 4, ..., 12 s after its cast, at most 6 times, and the
\* debuff is removed in the step of the last tick, after the tick
C38_RipSchedule ==
    [][/\ (pc = "rotate" /\ ev'.name = "Rip") =>
             /\ ~sim.rip_debuff
             /\ sim'.rip_debuff <=> ~ev'.miss
             /\ sim'.rip_debuff =>
                   /\ sim'.rip_ticks = [i \in 1..6 |-> time + 2 * i * MS]
                   /\ sim'.rip_end = time + 12 * MS
       /\ (pc = "rip" /\ steplog' # steplog) =>
             /\ sim.rip_debuff
             /\ \/ /\ time < sim.rip_end
                   /\ steplog' = Append(steplog, "Rip tick")
                   /\ sim'.rip_debuff
                \/ /\ time = sim.rip_end
                   /\ steplog' = steplog \o <<"Rip tick", "Rip falls off">>
                   /\ ~sim'.rip_debuff
             /\ sim.rip_end - time \in {2 * i * MS : i \in 0..5}
             /\ Len(sim.rip_ticks) = (sim.rip_end - time) \div (2 * MS) + 1
             /\ sim'.rip_ticks = Tail(sim.rip_ticks)
       /\ sim'.rip_debuff # sim.rip_debuff
             => \/ pc = "rotate" /\ ev'.name = "Rip"
                \/ pc = "rip" /\ time = sim.rip_end
                \/ pc = "constructed"]_vars

\* the sixth tick of a Rip has been counted and the debuff removed
C38_Witness ==
    /\ pc = "swing"
    /\ Len(steplog) >= 2
    /\ steplog[Len(steplog) - 1] = "Rip tick"
    /\ steplog[Len(steplog)] = "Rip falls off"
    /\ ~sim.rip_debuff
    /\ sim.rip_ticks = <<>>
    /\ time = sim.rip_end

\* C39: in cat form the policy starts a powershift or an Innervate only with
\* less than 22 energy
C39_ShiftBelow22 ==
    [][(pc = "rotate" /\ player.cat_form /\ ev'.name \in {"shift", "Innervate"})
          => /\ player.energy < 22 * EN
             /\ Decision(player, sim) = "innervate_or_shift"
             /\ player'.energy = IF ev'.name = "shift" THEN 60 * EN ELSE 0]_vars

\* a powershift was made from cat form: no Innervate was cast before it
C39_Witness ==
    /\ pc = "sample"
    /\ ev.name = "shift"
    /\ player.cat_form
    /\ player.energy = 60 * EN
    /\ player.innervate_cd = 0
    /\ time > 0

\* the number of haste-weapon activations made so far in the trial: the
\* weapons taken, less the one equipped and waiting for its cooldown
mcp_activations ==
    (cfg.max_mcp - sim.num_mcp)
        - (IF sim.mcp_equipped /\ ~sim.mcp_active THEN 1 ELSE 0)

\* the swing timer without the haste of the weapon
unhasted_timer == calc_swing_timer(calc_haste_rating(cfg.swing_timer) - 500)

\* C40: in a trial the haste weapon is activated at most num_mcp times, the
\* count of remaining weapons is never negative, the haste buff is active
\* only with the weapon equipped, and the swing timer is the hasted one, that
\* of the Player, exactly while the buff is active
C40_HasteWeapon ==
    [][pc' \notin {"constructed", "raised"} =>
         /\ sim'.num_mcp >= 0 /\ sim'.num_mcp <= cfg.max_mcp
         /\ mcp_activations' >= 0 /\ mcp_activations' <= cfg.max_mcp
         /\ sim'.mcp_active => sim'.mcp_equipped
         /\ sim'.mcp_active => sim'.swing_timer = cfg.swing_timer
         /\ (cfg.max_mcp >= 1 /\ ~sim'.mcp_active)
               => (sim'.swing_timer = unhasted_timer
                   /\ unhasted_timer > cfg.swing_timer)
         /\ pc # "constructed" =>
               mcp_activations' = mcp_activations
                  + (IF ~sim.mcp_active /\ sim'.mcp_active THEN 1 ELSE 0)
         /\ pc = "constructed" =>
               mcp_activations' = IF cfg.max_mcp >= 1 THEN 1 ELSE 0]_vars

\* the second weapon has been activated after the buff of the first ended
C40_Witness ==
    /\ pc = "rip"
    /\ cfg.max_mcp = 2
    /\ sim.num_mcp = 0
    /\ sim.mcp_active
    /\ sim.mcp_end > 90 * MS
    /\ mcp_activations = 2
    /\ steplog # <<>>
    /\ steplog[Len(steplog)] = "Haste applied"

====
